---- MODULE Spec2Model ----
(***************************************************************************)
(* Model of the zip/CSV ingestion of python-client/urap_polar              *)
(* (zip_loader.py) and of the session model it feeds (session.py).         *)
(*                                                                         *)
(* Text is a sequence of tokens.  The characters the code treats           *)
(* specially are tokens of their own: "," (field separator), " "           *)
(* (whitespace), "\"" (CSV quote), "_" and "/" (file-name separators) and  *)
(* "Z" (UTC suffix).  Every other token stands for a maximal run of        *)
(* ordinary characters ("ABC123", "45.20", "Sensor ID").  A file is a      *)
(* sequence of lines, an archive a sequence of entries.                    *)
(*                                                                         *)
(* Floats are counted in hundredths (45.20 is 4520); NaN is kept apart.    *)
(* Instants are seconds relative to 2024-05-15T19:30:00.                   *)
(***************************************************************************)
EXTENDS Integers, Sequences, FiniteSets, TLC

VARIABLES
    archive,            \* the zip file: sequence of [name, content]
    pc,                 \* position of load_from_zip
    zopen,              \* the ZipFile handle of the with-block is open
    folder,             \* result of _find_folder_in_zip
    lines,              \* session_info.csv, split into lines
    ln,                 \* number of lines _parse_session_info has consumed
    in_sensors,         \* local of _parse_session_info
    meta,               \* local of _parse_session_info / load_from_zip
    sensors_table,      \* local of _parse_session_info / load_from_zip
    i,                  \* loop index of load_from_zip (rows already handled)
    sensor_recordings,  \* local of load_from_zip
    session,            \* the RecordingSession returned, or None
    err,                \* the exception that left load_from_zip, or ""
    held,               \* the list the caller last got from a list accessor
    got                 \* the caller's last get_heart_rate_point / get_rr_point call

vars == <<archive, pc, zopen, folder, lines, ln, in_sensors, meta,
          sensors_table, i, sensor_recordings, session, err, held, got>>

---------------------------------------------------------------------------
(* Python values *)

None == [tag |-> "None"]

\* datetime: t seconds, aware iff it carries a UTC offset
Dt(t, aware) == [tag |-> "datetime", t |-> t, aware |-> aware]

\* str
Str(s) == [tag |-> "str", s |-> s]

\* float: a finite value in hundredths, or NaN
Fl(c) == [nan |-> FALSE, c |-> c]

NaN == [nan |-> TRUE, c |-> 0]

\* the outcome of an expression: a value or a raised exception
Ok(v) == [ok |-> TRUE, v |-> v, exc |-> ""]

Raise(e) == [ok |-> FALSE, v |-> 0, exc |-> e]

\* dict.get(k, default)
Get(d, k, default) == IF k \in DOMAIN d THEN d[k] ELSE default

\* d[k] = v
Put(d, k, v) == (k :> v) @@ d

\* dict.setdefault(k, v)
SetDefault(d, k, v) == IF k \in DOMAIN d THEN d ELSE Put(d, k, v)

EmptyDict == [k \in {} |-> None]

---------------------------------------------------------------------------
(* str methods *)

IsWs(c) == c = " "

RECURSIVE LStrip(_)
LStrip(s) == IF s # <<>> /\ IsWs(Head(s)) THEN LStrip(Tail(s)) ELSE s

RECURSIVE RStrip(_)
RStrip(s) ==
    IF s # <<>> /\ IsWs(s[Len(s)]) THEN RStrip(SubSeq(s, 1, Len(s) - 1)) ELSE s

\* s.strip()
Strip(s) == RStrip(LStrip(s))

\* s.startswith(p)
StartsWith(s, p) == Len(s) >= Len(p) /\ SubSeq(s, 1, Len(p)) = p

\* s.endswith(p)
EndsWith(s, p) ==
    Len(s) >= Len(p) /\ SubSeq(s, Len(s) - Len(p) + 1, Len(s)) = p

\* s.find(c) for a one-token c: 0-based position, -1 when absent
Find(s, c) ==
    IF \E k \in 1..Len(s) : s[k] = c
    THEN (CHOOSE k \in 1..Len(s) : s[k] = c /\ \A j \in 1..(k - 1) : s[j] # c) - 1
    ELSE -1

\* c in s, for a one-token c
Contains(s, c) == \E k \in 1..Len(s) : s[k] = c

\* s.split(sep) for a one-token sep
RECURSIVE Split(_, _)
Split(s, sep) ==
    LET k == Find(s, sep)
    IN  IF k < 0 THEN <<s>>
        ELSE <<SubSeq(s, 1, k)>> \o Split(SubSeq(s, k + 2, Len(s)), sep)

\* sep.join(parts)
RECURSIVE Join(_, _)
Join(parts, sep) ==
    IF parts = <<>> THEN <<>>
    ELSE IF Len(parts) = 1 THEN parts[1]
    ELSE parts[1] \o sep \o Join(Tail(parts), sep)

\* s.replace(old, new), old and new token sequences
RECURSIVE Replace(_, _, _)
Replace(s, old, new) ==
    IF s = <<>> THEN <<>>
    ELSE IF StartsWith(s, old)
         THEN new \o Replace(SubSeq(s, Len(old) + 1, Len(s)), old, new)
         ELSE <<Head(s)>> \o Replace(Tail(s), old, new)

\* [f(x) for x in s]
RECURSIVE MapStrip(_)
MapStrip(parts) ==
    IF parts = <<>> THEN <<>> ELSE <<Strip(Head(parts))>> \o MapStrip(Tail(parts))

---------------------------------------------------------------------------
(* int(), float(), datetime.fromisoformat() and datetime.isoformat() *)

\* the integer literals of the modelled files
IntLit ==
    [tok \in {"0", "1", "2", "3", "4", "60", "65", "70", "72", "85", "120", "815", "820"} |->
        CASE tok = "0" -> 0 [] tok = "1" -> 1 [] tok = "2" -> 2 [] tok = "3" -> 3
          [] tok = "4" -> 4 [] tok = "60" -> 60 [] tok = "65" -> 65 [] tok = "70" -> 70
          [] tok = "72" -> 72 [] tok = "85" -> 85 [] tok = "120" -> 120
          [] tok = "815" -> 815 [] tok = "820" -> 820]

\* the literals float() accepts and int() rejects, in hundredths
DecLit ==
    [tok \in {"45.20", "38.70", "72.5", "72.9", "300.0", "7.5", "100.1", "101.1"} |->
        CASE tok = "45.20" -> 4520 [] tok = "38.70" -> 3870 [] tok = "72.5" -> 7250
          [] tok = "72.9" -> 7290 [] tok = "300.0" -> 30000 [] tok = "7.5" -> 750
          [] tok = "100.1" -> 10010 [] tok = "101.1" -> 10110]

\* int(s) of a str: surrounding whitespace is accepted
PyInt(s) ==
    LET t == Strip(s)
    IN  IF Len(t) = 1 /\ t[1] \in DOMAIN IntLit THEN Ok(IntLit[t[1]])
        ELSE Raise("ValueError")

\* float(s) of a str: also accepts "nan"
PyFloat(s) ==
    LET t == Strip(s)
    IN  IF Len(t) = 1 /\ t[1] \in DOMAIN IntLit THEN Ok(Fl(100 * IntLit[t[1]]))
        ELSE IF Len(t) = 1 /\ t[1] \in DOMAIN DecLit THEN Ok(Fl(DecLit[t[1]]))
        ELSE IF Len(t) = 1 /\ t[1] = "nan" THEN Ok(NaN)
        ELSE Raise("ValueError")

\* int(x) of a float: truncates toward zero, NaN cannot be converted
PyIntOfFloat(x) ==
    IF x.nan THEN Raise("ValueError")
    ELSE IF x.c >= 0 THEN Ok(x.c \div 100)
    ELSE Ok(0 - ((0 - x.c) \div 100))

\* str(n) inside an f-string
PyStr(n) == CHOOSE tok \in DOMAIN IntLit : IntLit[tok] = n

\* the date-time texts of the modelled files and their instants
IsoBody ==
    [tok \in {"2024-05-15T19:30:00", "2024-05-15T19:30:00.000", "2024-05-15T19:30:01",
              "2024-05-15T19:35:00", "2024-05-15T19:35:00.000"} |->
        CASE tok = "2024-05-15T19:30:00" -> 0 [] tok = "2024-05-15T19:30:00.000" -> 0
          [] tok = "2024-05-15T19:30:01" -> 1
          [] tok = "2024-05-15T19:35:00" -> 300 [] tok = "2024-05-15T19:35:00.000" -> 300]

\* datetime.fromisoformat(s)
FromIsoFormat(s) ==
    IF Len(s) = 1 /\ s[1] \in DOMAIN IsoBody THEN Ok(Dt(IsoBody[s[1]], FALSE))
    ELSE IF Len(s) = 2 /\ s[1] \in DOMAIN IsoBody /\ s[2] = "+00:00"
         THEN Ok(Dt(IsoBody[s[1]], TRUE))
    ELSE Raise("ValueError")

\* the text isoformat() writes for an instant: zero microseconds are omitted
IsoCanon == {"2024-05-15T19:30:00", "2024-05-15T19:30:01", "2024-05-15T19:35:00"}

\* dt.isoformat()
IsoFormat(dt) ==
    <<CHOOSE tok \in IsoCanon : IsoBody[tok] = dt.t>>
    \o (IF dt.aware THEN <<"+00:00">> ELSE <<>>)

\* zip_loader._parse_iso
ZipParseIso(s) ==
    IF s = <<>> \/ Strip(s) = <<>> THEN None
    ELSE LET r == FromIsoFormat(Replace(Strip(s), <<"Z">>, <<"+00:00">>))
         IN  IF r.ok THEN r.v ELSE None

\* a _parse_iso that lacks the isinstance(s, datetime) branch: replace() of a
\* datetime raises and the instant is lost
SessionParseIsoStringsOnly(s) ==
    IF s = None THEN None
    ELSE IF s.tag = "datetime" THEN None
    ELSE LET r == FromIsoFormat(Replace(s.s, <<"Z">>, <<"+00:00">>))
         IN  IF r.ok THEN r.v ELSE None

\* session._parse_iso
SessionParseIso(s) ==
    IF s = None THEN None
    ELSE IF s.tag = "datetime" THEN s
    ELSE LET r == FromIsoFormat(Replace(s.s, <<"Z">>, <<"+00:00">>))
         IN  IF r.ok THEN r.v ELSE None

---------------------------------------------------------------------------
(* csv.reader, default dialect, one line *)

\* the reader's automaton: st is "start", "field", "quoted" or "quote"
\* (a quote seen inside a quoted field); cur is the field being built
RECURSIVE CsvScan(_, _, _, _)
CsvScan(s, st, cur, out) ==
    IF s = <<>> THEN Append(out, cur)
    ELSE LET c == Head(s)
             r == Tail(s)
         IN  CASE st = "start" /\ c = "," -> CsvScan(r, "start", <<>>, Append(out, cur))
               [] st = "start" /\ c = "\"" -> CsvScan(r, "quoted", cur, out)
               [] st = "start" /\ c \notin {",", "\""} -> CsvScan(r, "field", Append(cur, c), out)
               [] st = "field" /\ c = "," -> CsvScan(r, "start", <<>>, Append(out, cur))
               [] st = "field" /\ c # "," -> CsvScan(r, "field", Append(cur, c), out)
               [] st = "quoted" /\ c = "\"" -> CsvScan(r, "quote", cur, out)
               [] st = "quoted" /\ c # "\"" -> CsvScan(r, "quoted", Append(cur, c), out)
               [] st = "quote" /\ c = "\"" -> CsvScan(r, "quoted", Append(cur, c), out)
               [] st = "quote" /\ c = "," -> CsvScan(r, "start", <<>>, Append(out, cur))
               [] st = "quote" /\ c \notin {",", "\""} -> CsvScan(r, "field", Append(cur, c), out)

\* list(csv.reader(io.StringIO(line))): the rows read from one line
CsvReader(line) == IF line = <<>> THEN <<>> ELSE <<CsvScan(line, "start", <<>>, <<>>)>>

---------------------------------------------------------------------------
(* _parse_session_info *)

\* _int of _parse_session_info
RowInt(s) == LET r == PyInt(s) IN IF r.ok THEN r.v ELSE 0

\* _float of _parse_session_info
RowFloat(s) == LET r == PyFloat(s) IN IF r.ok THEN r.v ELSE Fl(0)

\* sensor_name of a row of at least 7 fields
RowSensorName(row) ==
    IF Len(row) > 7
    THEN Join(MapStrip(SubSeq(row, 2, Len(row) - 5)), <<",">>)
    ELSE Strip(row[2])

\* the dict appended for a row of at least 7 fields
SensorRow(row) ==
    LET n == Len(row)
    IN  [sensor_id |-> Strip(row[1]),
         sensor_name |-> RowSensorName(row),
         hr_samples |-> RowInt(row[n - 4]),
         rr_samples |-> RowInt(row[n - 3]),
         avg_hr |-> RowFloat(row[n - 2]),
         sdnn |-> RowFloat(row[n - 1]),
         rmssd |-> RowFloat(row[n])]

\* the body of "if in_sensors:": the table after the line
TableAfterLine(table, line) ==
    IF Contains(line, "Sensor ID") /\ Contains(line, "Sensor Name") THEN table
    ELSE LET rows == CsvReader(line)
         IN  IF rows = <<>> \/ rows[1] = <<>> THEN table
             ELSE IF Len(rows[1]) >= 7 THEN Append(table, SensorRow(rows[1]))
             ELSE table

\* float(value) with "except ValueError: 0.0"
MetaFloat(value) == LET r == PyFloat(value) IN IF r.ok THEN r.v ELSE Fl(0)

\* int(value) with "except ValueError: 0"
MetaInt(value) == LET r == PyInt(value) IN IF r.ok THEN r.v ELSE 0

\* the key,value branch: the metadata after the line
MetaAfterLine(m, line) ==
    LET idx == Find(line, ",")
        key == Strip(SubSeq(line, 1, idx))
        value == Strip(SubSeq(line, idx + 2, Len(line)))
    IN  IF idx < 0 THEN m
        ELSE CASE key = <<"Session ID">> -> Put(m, "id", value)
               [] key = <<"Recording Name">> -> Put(m, "name", value)
               [] key = <<"Start Time">> -> Put(m, "startDate", ZipParseIso(value))
               [] key = <<"End Time">> -> Put(m, "endDate", ZipParseIso(value))
               [] key = <<"Duration (seconds)">> -> Put(m, "duration", MetaFloat(value))
               [] key = <<"Number of Sensors">> -> Put(m, "sensorCount", MetaInt(value))
               [] key = <<"Total Data Points">> -> Put(m, "totalDataPoints", MetaInt(value))
               [] key = <<"Average Heart Rate (BPM)">> -> Put(m, "averageHeartRate", MetaFloat(value))
               [] key = <<"Average SDNN (ms)">> -> Put(m, "averageSDNN", MetaFloat(value))
               [] key = <<"Average RMSSD (ms)">> -> Put(m, "averageRMSSD", MetaFloat(value))
               [] OTHER -> m

\* the loop body without the "continue" that ends the Sensors branch: a line
\* after the marker is read as a row and as key,value metadata
ParseLineMetaAfterMarker(st, line) ==
    IF Strip(line) = <<>> THEN st
    ELSE IF Strip(line) = <<"Sensors">> THEN [st EXCEPT !.in_sensors = TRUE]
    ELSE IF st.in_sensors
         THEN [st EXCEPT !.sensors_table = TableAfterLine(st.sensors_table, line),
                         !.meta = MetaAfterLine(st.meta, line)]
    ELSE [st EXCEPT !.meta = MetaAfterLine(st.meta, line)]

\* one iteration of "for line in lines" on the loop state st
ParseLine(st, line) ==
    IF Strip(line) = <<>> THEN st
    ELSE IF Strip(line) = <<"Sensors">> THEN [st EXCEPT !.in_sensors = TRUE]
    ELSE IF st.in_sensors
         THEN [st EXCEPT !.sensors_table = TableAfterLine(st.sensors_table, line)]
    ELSE [st EXCEPT !.meta = MetaAfterLine(st.meta, line)]

---------------------------------------------------------------------------
(* _read_hr_csv, _read_rr_csv, _read_statistics_csv *)

RECURSIVE DropBlankHead(_)
DropBlankHead(c) ==
    IF c # <<>> /\ Strip(Head(c)) = <<>> THEN DropBlankHead(Tail(c)) ELSE c

RECURSIVE DropBlankTail(_)
DropBlankTail(c) ==
    IF c # <<>> /\ Strip(c[Len(c)]) = <<>>
    THEN DropBlankTail(SubSeq(c, 1, Len(c) - 1)) ELSE c

\* content.strip().splitlines(): whitespace, line breaks included, is removed
\* from both ends of the file before it is split into lines
StripSplitLines(c) ==
    LET d == DropBlankTail(DropBlankHead(c))
    IN  IF d = <<>> THEN <<>>
        ELSE IF Len(d) = 1 THEN <<Strip(d[1])>>
        ELSE <<LStrip(d[1])>> \o SubSeq(d, 2, Len(d) - 1) \o <<RStrip(d[Len(d)])>>

\* a loop body that also drops a row whose timestamp does not parse
HrRowNeedsTimestamp(line) ==
    LET parts == Split(line, ",")
    IN  IF Len(parts) < 4 THEN <<>>
        ELSE LET ts == ZipParseIso(Strip(parts[1]))
                 unix_time == PyFloat(Strip(parts[2]))
                 mono == PyFloat(Strip(parts[3]))
                 value == PyInt(Strip(parts[4]))
             IN  IF ts = None \/ ~unix_time.ok \/ ~mono.ok \/ ~value.ok THEN <<>>
                 ELSE <<[timestamp |-> Str(IsoFormat(ts)),
                         value |-> value.v,
                         monotonicTimestamp |-> mono.v]>>

\* the body of the loop of _read_hr_csv: the points the line adds (none or one)
HrRow(line) ==
    LET parts == Split(line, ",")
    IN  IF Len(parts) < 4 THEN <<>>
        ELSE LET ts == ZipParseIso(Strip(parts[1]))
                 unix_time == PyFloat(Strip(parts[2]))
                 mono == PyFloat(Strip(parts[3]))
                 value == PyInt(Strip(parts[4]))
             IN  IF ~unix_time.ok \/ ~mono.ok \/ ~value.ok THEN <<>>
                 ELSE <<[timestamp |-> Str(IF ts # None THEN IsoFormat(ts) ELSE <<>>),
                         value |-> value.v,
                         monotonicTimestamp |-> mono.v]>>

RECURSIVE HrRows(_)
HrRows(ls) == IF ls = <<>> THEN <<>> ELSE HrRow(Head(ls)) \o HrRows(Tail(ls))

\* _read_hr_csv(content)
ReadHrCsv(content) ==
    LET ls == StripSplitLines(content)
    IN  IF Len(ls) < 2 THEN <<>> ELSE HrRows(Tail(ls))

\* the body of the loop of _read_rr_csv
RrRow(line) ==
    LET parts == Split(line, ",")
    IN  IF Len(parts) < 4 THEN <<>>
        ELSE LET ts == ZipParseIso(Strip(parts[1]))
                 unix_time == PyFloat(Strip(parts[2]))
                 mono == PyFloat(Strip(parts[3]))
                 value == PyInt(Strip(parts[4]))
             IN  IF ~unix_time.ok \/ ~mono.ok \/ ~value.ok THEN <<>>
                 ELSE <<[timestamp |-> Str(IF ts # None THEN IsoFormat(ts) ELSE <<>>),
                         value |-> value.v,
                         monotonicTimestamp |-> mono.v]>>

RECURSIVE RrRows(_)
RrRows(ls) == IF ls = <<>> THEN <<>> ELSE RrRow(Head(ls)) \o RrRows(Tail(ls))

\* _read_rr_csv(content)
ReadRrCsv(content) ==
    LET ls == StripSplitLines(content)
    IN  IF Len(ls) < 2 THEN <<>> ELSE RrRows(Tail(ls))

\* "try: stats[k] = int(value) / except ValueError: pass"
StatInt(stats, k, value) ==
    LET r == PyInt(value) IN IF r.ok THEN Put(stats, k, r.v) ELSE stats

\* "try: stats[k] = float(value) / except ValueError: pass"
StatFloat(stats, k, value) ==
    LET r == PyFloat(value) IN IF r.ok THEN Put(stats, k, r.v) ELSE stats

\* the body of the loop of _read_statistics_csv
StatLine(stats, line) ==
    LET idx == Find(line, ",")
        key == Strip(SubSeq(line, 1, idx))
        value == Strip(SubSeq(line, idx + 2, Len(line)))
    IN  IF idx < 0 THEN stats
        ELSE CASE key = <<"Sensor ID">> -> Put(stats, "sensorId", value)
               [] key = <<"Sensor Name">> -> Put(stats, "sensorName", value)
               [] key = <<"Duration (seconds)">> -> StatFloat(stats, "duration", value)
               [] key = <<"Heart Rate Samples">> -> StatInt(stats, "heartRateSamples", value)
               [] key = <<"RR Interval Samples">> -> StatInt(stats, "rrIntervalSamples", value)
               [] key = <<"Min Heart Rate (BPM)">> -> StatInt(stats, "minHeartRate", value)
               [] key = <<"Max Heart Rate (BPM)">> -> StatInt(stats, "maxHeartRate", value)
               [] key = <<"Average Heart Rate (BPM)">> -> StatInt(stats, "averageHeartRate", value)
               [] key = <<"SDNN (ms)">> -> StatFloat(stats, "sdnn", value)
               [] key = <<"RMSSD (ms)">> -> StatFloat(stats, "rmssd", value)
               [] key = <<"HRV Window">> -> Put(stats, "hrvWindow", value)
               [] key = <<"HRV Sample Count">> -> StatInt(stats, "hrvSampleCount", value)
               [] OTHER -> stats

RECURSIVE StatLines(_, _)
StatLines(stats, ls) ==
    IF ls = <<>> THEN stats ELSE StatLines(StatLine(stats, Head(ls)), Tail(ls))

\* _read_statistics_csv(content)
ReadStatisticsCsv(content) ==
    LET ls == StripSplitLines(content)
    IN  IF Len(ls) < 2 THEN EmptyDict ELSE StatLines(EmptyDict, Tail(ls))

---------------------------------------------------------------------------
(* zipfile.ZipFile *)

\* z.namelist()
NameList(z) == [k \in 1..Len(z) |-> z[k].name]

\* name is an entry of z (z.read(name) does not raise KeyError)
HasEntry(z, name) == \E k \in 1..Len(z) : z[k].name = name

\* z.read(name).decode("utf-8") for an entry of z
ReadEntry(z, name) == z[CHOOSE k \in 1..Len(z) : z[k].name = name].content

\* _find_folder_in_zip: the first top-level folder accepted, or None
FindFolderInZip(z) ==
    LET tops == [k \in 1..Len(z) |-> Split(z[k].name, "/")[1]]
        hit(k) == /\ Contains(z[k].name, "/")
                  /\ EndsWith(tops[k], <<"_", "csv">>)
                  /\ StartsWith(tops[k], <<"recording", "_">>)
    IN  IF \E k \in 1..Len(z) : hit(k)
        THEN Str(tops[CHOOSE k \in 1..Len(z) : hit(k) /\ \A j \in 1..(k - 1) : ~hit(j)])
        ELSE None

\* _discover_sensors_from_zip
RECURSIVE DiscoverRows(_, _)
DiscoverRows(names, prefix) ==
    IF names = <<>> THEN <<>>
    ELSE LET name == Head(names)
             base == SubSeq(name, Len(prefix) + 1, Len(name))
             parts == Split(Replace(base, <<"_", "hr.csv">>, <<>>), "_")
             idx == PyInt(parts[2])
             sid == Join(SubSeq(parts, 3, Len(parts)), <<"_">>)
             rest == DiscoverRows(Tail(names), prefix)
         IN  IF ~StartsWith(name, prefix) \/ ~EndsWith(name, <<"_", "hr.csv">>) THEN rest
             ELSE IF ~StartsWith(base, <<"sensor", "_">>) THEN rest
             ELSE IF Len(parts) >= 3 /\ idx.ok
                  THEN <<[index |-> idx.v, sensor_id |-> sid, sensor_name |-> sid,
                          hr_samples |-> 0, rr_samples |-> 0,
                          avg_hr |-> Fl(0), sdnn |-> Fl(0), rmssd |-> Fl(0)]>> \o rest
             ELSE rest

RECURSIVE SortByIndex(_)
\* the rows left in the order of the listing
KeepListingOrder(rows) == rows

\* list.sort(key=index): stable insertion sort
SortByIndex(rows) ==
    IF rows = <<>> THEN <<>>
    ELSE LET sorted == SortByIndex(SubSeq(rows, 1, Len(rows) - 1))
             r == rows[Len(rows)]
             k == Cardinality({j \in 1..Len(sorted) : sorted[j].index <= r.index})
         IN  SubSeq(sorted, 1, k) \o <<r>> \o SubSeq(sorted, k + 1, Len(sorted))

DiscoverSensorsFromZip(z, prefix) == SortByIndex(DiscoverRows(NameList(z), prefix))

---------------------------------------------------------------------------
(* session.py: points, SensorData, RecordingSession *)

\* datetime.min, a naive instant before every modelled one
DatetimeMin == Dt(-100000, FALSE)

\* "x or y"
PyOr(x, y) == IF x = None \/ x = Str(<<>>) THEN y ELSE x

\* _point_from_hr
PointFromHr(d) ==
    [timestamp |-> PyOr(SessionParseIso(Get(d, "timestamp", None)), DatetimeMin),
     value |-> Get(d, "value", 0),
     monotonic_timestamp |-> Get(d, "monotonicTimestamp", Fl(0))]

\* _point_from_rr
PointFromRr(d) ==
    [timestamp |-> PyOr(SessionParseIso(Get(d, "timestamp", None)), DatetimeMin),
     value |-> Get(d, "value", 0),
     monotonic_timestamp |-> Get(d, "monotonicTimestamp", Fl(0))]

\* SensorData(s), __post_init__ included
SensorData(s) ==
    LET hr == Get(s, "heartRateData", <<>>)
        rr == Get(s, "rrIntervalData", <<>>)
    IN  [data |-> s,
         hr_points |-> [k \in 1..Len(hr) |-> PointFromHr(hr[k])],
         rr_points |-> [k \in 1..Len(rr) |-> PointFromRr(rr[k])]]

\* RecordingSession(data)
RecordingSession(data) ==
    LET recs == Get(data, "sensorRecordings", Get(data, "sensor_recordings", <<>>))
    IN  [data |-> data, sensors |-> [k \in 1..Len(recs) |-> SensorData(recs[k])]]

\* SensorData.sensor_id
sensor_id(sd) == Get(sd.data, "sensorId", Get(sd.data, "sensor_id", <<>>))

\* SensorData.sensor_name
sensor_name(sd) == Get(sd.data, "sensorName", Get(sd.data, "sensor_name", <<>>))

\* SensorData.data_point_count
data_point_count(sd) == Len(sd.hr_points) + Len(sd.rr_points)

Statistics(sd) == Get(sd.data, "statistics", EmptyDict)

\* SensorData.heart_rate_min
heart_rate_min(sd) ==
    Get(Statistics(sd), "minHeartRate", Get(Statistics(sd), "min_heart_rate", 0))

\* SensorData.heart_rate_max
heart_rate_max(sd) ==
    Get(Statistics(sd), "maxHeartRate", Get(Statistics(sd), "max_heart_rate", 0))

\* SensorData.heart_rate_avg
heart_rate_avg(sd) ==
    Get(Statistics(sd), "averageHeartRate", Get(Statistics(sd), "average_heart_rate", 0))

\* SensorData.sdnn
sdnn(sd) == Get(Statistics(sd), "sdnn", Fl(0))

\* SensorData.rmssd
rmssd(sd) == Get(Statistics(sd), "rmssd", Fl(0))

\* SensorData.hrv_window
hrv_window(sd) == Get(Statistics(sd), "hrvWindow", Get(Statistics(sd), "hrv_window", <<>>))

\* SensorData.hrv_sample_count
hrv_sample_count(sd) ==
    Get(Statistics(sd), "hrvSampleCount", Get(Statistics(sd), "hrv_sample_count", 0))

\* SensorData.heart_rate_points
heart_rate_points(sd) == sd.hr_points

\* SensorData.rr_points
rr_points(sd) == sd.rr_points

\* what list indexing alone would give: a negative index counts from the end
\* and one below -len raises IndexError
HeartRatePointByIndex(sd, ix) ==
    LET n == Len(sd.hr_points)
    IN  IF ix >= n THEN None
        ELSE IF ix >= 0 THEN sd.hr_points[ix + 1]
        ELSE IF 0 - ix <= n THEN sd.hr_points[n + ix + 1]
        ELSE [tag |-> "IndexError"]

\* SensorData.get_heart_rate_point(i)
get_heart_rate_point(sd, ix) ==
    IF 0 <= ix /\ ix < Len(sd.hr_points) THEN sd.hr_points[ix + 1] ELSE None

\* SensorData.get_rr_point(i)
get_rr_point(sd, ix) ==
    IF 0 <= ix /\ ix < Len(sd.rr_points) THEN sd.rr_points[ix + 1] ELSE None

\* datetime.timestamp(): seconds since the epoch; for the naive datetime.min
\* the conversion from local time leaves the supported years and raises
DtTimestamp(dt) == IF dt = DatetimeMin THEN Raise("ValueError") ELSE Ok(dt.t)

\* max(times): comparing a naive with an aware datetime raises TypeError
PyMaxTime(times) ==
    IF \E j, k \in 1..Len(times) : times[j].aware # times[k].aware THEN Raise("TypeError")
    ELSE Ok(CHOOSE d \in {times[k] : k \in 1..Len(times)} :
               \A k \in 1..Len(times) : d.t >= times[k].t)

\* min(times)
PyMinTime(times) ==
    IF \E j, k \in 1..Len(times) : times[j].aware # times[k].aware THEN Raise("TypeError")
    ELSE Ok(CHOOSE d \in {times[k] : k \in 1..Len(times)} :
               \A k \in 1..Len(times) : d.t <= times[k].t)

\* SensorData.duration_seconds, or the exception it raises
sensor_duration_seconds(sd) ==
    LET times == [k \in 1..Len(sd.hr_points) |-> sd.hr_points[k].timestamp]
                 \o [k \in 1..Len(sd.rr_points) |-> sd.rr_points[k].timestamp]
        mx == PyMaxTime(times)
        mxt == DtTimestamp(mx.v)
        mn == PyMinTime(times)
        mnt == DtTimestamp(mn.v)
    IN  IF sd.hr_points = <<>> /\ sd.rr_points = <<>> THEN Ok(0)
        ELSE IF ~mx.ok THEN mx
        ELSE IF ~mxt.ok THEN mxt
        ELSE IF ~mn.ok THEN mn
        ELSE IF ~mnt.ok THEN mnt
        ELSE Ok(mxt.v - mnt.v)

\* RecordingSession.id
id(S) == Get(S.data, "id", <<>>)

\* RecordingSession.name
name(S) == Get(S.data, "name", <<>>)

\* RecordingSession.start_date
start_date(S) ==
    SessionParseIso(PyOr(Get(S.data, "startDate", None), Get(S.data, "start_date", None)))

\* RecordingSession.end_date
end_date(S) ==
    SessionParseIso(PyOr(Get(S.data, "endDate", None), Get(S.data, "end_date", None)))

\* end - start of two datetimes, in seconds: naive and aware do not mix
DtSub(end, start) ==
    IF end.aware # start.aware THEN Raise("TypeError") ELSE Ok(end.t - start.t)

\* RecordingSession.duration_seconds
duration_seconds(S) ==
    IF start_date(S) # None /\ end_date(S) # None
    THEN DtSub(end_date(S), start_date(S))
    ELSE Ok(0)

\* RecordingSession.sensor_count
sensor_count(S) == Len(S.sensors)

\* RecordingSession.sensors
sensors(S) == S.sensors

\* RecordingSession.sensor(sensor_id): the first sensor with that id, or None
sensor(S, sid) ==
    IF \E k \in 1..Len(S.sensors) : sensor_id(S.sensors[k]) = sid
    THEN S.sensors[CHOOSE k \in 1..Len(S.sensors) :
                      /\ sensor_id(S.sensors[k]) = sid
                      /\ \A j \in 1..(k - 1) : sensor_id(S.sensors[j]) # sid]
    ELSE None

\* the rows of heart_rate_dataframe() and rr_dataframe()
DataframeRows(ps) ==
    [k \in 1..Len(ps) |-> [timestamp |-> ps[k].timestamp, value |-> ps[k].value,
                           monotonicTimestamp |-> ps[k].monotonic_timestamp]]

\* RecordingSession.to_dataframes(): "out[s.sensor_id] = ..." for each sensor
\* in turn, a later sensor replacing an earlier one with the same id
RECURSIVE ToDataframesLoop(_, _)
ToDataframesLoop(out, ss) ==
    IF ss = <<>> THEN out
    ELSE LET s == Head(ss)
             frames == [heart_rate |-> DataframeRows(s.hr_points),
                        rr_intervals |-> DataframeRows(s.rr_points)]
         IN  ToDataframesLoop([k \in DOMAIN out \cup {sensor_id(s)} |->
                                  IF k = sensor_id(s) THEN frames ELSE out[k]],
                              Tail(ss))

to_dataframes(S) == ToDataframesLoop(EmptyDict, S.sensors)

RECURSIVE SumSeq(_)
SumSeq(s) == IF s = <<>> THEN 0 ELSE Head(s) + SumSeq(Tail(s))

\* RecordingSession.total_data_points
total_data_points(S) == SumSeq([k \in 1..Len(S.sensors) |-> data_point_count(S.sensors[k])])

RECURSIVE Gcd(_, _)
Gcd(a, b) == IF b = 0 THEN a ELSE Gcd(b, a % b)

\* a / b as an exact fraction in lowest terms, b > 0
Quot(a, b) ==
    LET g == Gcd(IF a >= 0 THEN a ELSE 0 - a, b)
    IN  [num |-> a \div g, den |-> b \div g]

\* an average that leaves out the sensors whose average is 0, as the HRV
\* averages do
AverageHeartRateSkipZero(S) ==
    LET K == {k \in 1..Len(S.sensors) : heart_rate_avg(S.sensors[k]) > 0}
        total == SumSeq([k \in 1..Len(S.sensors) |-> heart_rate_avg(S.sensors[k])])
    IN  IF K = {} THEN Quot(0, 1) ELSE Quot(total, Cardinality(K))

\* RecordingSession.average_heart_rate
average_heart_rate(S) ==
    IF S.sensors = <<>> THEN Quot(0, 1)
    ELSE Quot(SumSeq([k \in 1..Len(S.sensors) |-> heart_rate_avg(S.sensors[k])]),
              Len(S.sensors))

\* "x > 0" of a float: false for NaN
FloatPositive(x) == ~x.nan /\ x.c > 0

\* the filter written "s.sdnn >= 0": sensors with a zero metric are counted
RECURSIVE ValidSdnnWithZero(_)
ValidSdnnWithZero(ss) ==
    IF ss = <<>> THEN <<>>
    ELSE (IF ~sdnn(Head(ss)).nan /\ sdnn(Head(ss)).c >= 0 THEN <<sdnn(Head(ss)).c>> ELSE <<>>)
         \o ValidSdnnWithZero(Tail(ss))

\* [s.sdnn for s in self._sensors if s.sdnn > 0], in hundredths
RECURSIVE ValidSdnn(_)
ValidSdnn(ss) ==
    IF ss = <<>> THEN <<>>
    ELSE (IF FloatPositive(sdnn(Head(ss))) THEN <<sdnn(Head(ss)).c>> ELSE <<>>)
         \o ValidSdnn(Tail(ss))

\* RecordingSession.average_sdnn
average_sdnn(S) ==
    LET valid == ValidSdnn(S.sensors)
    IN  IF valid # <<>> THEN Quot(SumSeq(valid), Len(valid)) ELSE Quot(0, 1)

\* [s.rmssd for s in self._sensors if s.rmssd > 0], in hundredths
RECURSIVE ValidRmssd(_)
ValidRmssd(ss) ==
    IF ss = <<>> THEN <<>>
    ELSE (IF FloatPositive(rmssd(Head(ss))) THEN <<rmssd(Head(ss)).c>> ELSE <<>>)
         \o ValidRmssd(Tail(ss))

\* RecordingSession.average_rmssd
average_rmssd(S) ==
    LET valid == ValidRmssd(S.sensors)
    IN  IF valid # <<>> THEN Quot(SumSeq(valid), Len(valid)) ELSE Quot(0, 1)

---------------------------------------------------------------------------
(* load_from_zip *)

\* the paths of the three files of the row at 0-based position k
FilePrefix(prefix, k, row) == prefix \o <<"sensor", "_", PyStr(k + 1), "_">> \o row.sensor_id

HrPath(prefix, k, row) == FilePrefix(prefix, k, row) \o <<"_", "hr.csv">>

RrPath(prefix, k, row) == FilePrefix(prefix, k, row) \o <<"_", "rr.csv">>

StatsPath(prefix, k, row) == FilePrefix(prefix, k, row) \o <<"_", "statistics.csv">>

\* hr_data of one loop iteration: KeyError leaves the empty list
HrData(z, prefix, k, row) ==
    IF HasEntry(z, HrPath(prefix, k, row))
    THEN ReadHrCsv(ReadEntry(z, HrPath(prefix, k, row)))
    ELSE <<>>

\* rr_data of one loop iteration
RrData(z, prefix, k, row) ==
    IF HasEntry(z, RrPath(prefix, k, row))
    THEN ReadRrCsv(ReadEntry(z, RrPath(prefix, k, row)))
    ELSE <<>>

\* min(values, default=0)
MinOr0(vals) ==
    IF vals = <<>> THEN 0
    ELSE CHOOSE v \in {vals[k] : k \in 1..Len(vals)} : \A k \in 1..Len(vals) : v <= vals[k]

\* the first value instead of the greatest
FirstOr0(vals) == IF vals = <<>> THEN 0 ELSE vals[1]

\* max(values, default=0)
MaxOr0(vals) ==
    IF vals = <<>> THEN 0
    ELSE CHOOSE v \in {vals[k] : k \in 1..Len(vals)} : \A k \in 1..Len(vals) : v >= vals[k]

\* the "except KeyError" statistics: fails when int(avg_hr) fails
SynthStatistics(hr_data, row) ==
    LET vals == [k \in 1..Len(hr_data) |-> hr_data[k].value]
        avg == PyIntOfFloat(row.avg_hr)
    IN  IF ~avg.ok THEN avg
        ELSE Ok([minHeartRate |-> MinOr0(vals),
                 maxHeartRate |-> MaxOr0(vals),
                 averageHeartRate |-> avg.v,
                 sdnn |-> row.sdnn,
                 rmssd |-> row.rmssd,
                 hrvWindow |-> <<>>,
                 hrvSampleCount |-> 0])

\* statistics read from the file, the fields it leaves out filled with the
\* synthesized ones
StatisticsOfFilledFromRow(z, prefix, k, row, hr_data) ==
    LET synth == SynthStatistics(hr_data, row)
    IN  IF ~HasEntry(z, StatsPath(prefix, k, row)) \/ ~synth.ok THEN synth
        ELSE Ok(ReadStatisticsCsv(ReadEntry(z, StatsPath(prefix, k, row))) @@ synth.v)

\* statistics of one loop iteration
StatisticsOf(z, prefix, k, row, hr_data) ==
    IF HasEntry(z, StatsPath(prefix, k, row))
    THEN Ok(ReadStatisticsCsv(ReadEntry(z, StatsPath(prefix, k, row))))
    ELSE SynthStatistics(hr_data, row)

\* the dict one loop iteration appends, or the exception it raises
SensorRecording(z, prefix, k, row) ==
    LET hr_data == HrData(z, prefix, k, row)
        rr_data == RrData(z, prefix, k, row)
        statistics == StatisticsOf(z, prefix, k, row, hr_data)
    IN  IF ~statistics.ok THEN statistics
        ELSE Ok([sensorId |-> row.sensor_id,
                 sensorName |-> row.sensor_name,
                 heartRateData |-> hr_data,
                 rrIntervalData |-> rr_data,
                 statistics |-> statistics.v])

\* a loop that skips a row whose HR file is missing ("continue" on KeyError)
RecordingsAfterRowSkipMissing(recs, z, prefix, k, row) ==
    LET rec == SensorRecording(z, prefix, k, row)
    IN  IF ~HasEntry(z, HrPath(prefix, k, row)) THEN Ok(recs)
        ELSE IF rec.ok THEN Ok(Append(recs, rec.v)) ELSE rec

\* sensor_recordings after the iteration for the row at position k, or the
\* exception the iteration raises
RecordingsAfterRow(recs, z, prefix, k, row) ==
    LET rec == SensorRecording(z, prefix, k, row)
    IN  IF rec.ok THEN Ok(Append(recs, rec.v)) ELSE rec

\* the sensor rows used: the parsed table, or the discovered rows when it is empty
AssembledTable(z, prefix, table) ==
    IF table = <<>> THEN DiscoverSensorsFromZip(z, prefix) ELSE table

\* meta after the two setdefault calls
MetaDefaults(m) ==
    LET m1 == SetDefault(m, "id", <<>>)
    IN  SetDefault(m1, "name", Get(m1, "id", <<"Unknown">>))

Prefix == folder.s \o <<"/">>

\* with zipfile.ZipFile(zip_path, "r") as z:
Open ==
    /\ pc = "start"
    /\ zopen' = TRUE
    /\ pc' = "find"
    /\ UNCHANGED <<held, got>>
    /\ UNCHANGED <<archive, folder, lines, ln, in_sensors, meta, sensors_table, i,
                   sensor_recordings, session, err>>

\* folder = _find_folder_in_zip(z); raise ValueError without it
FindFolder ==
    /\ pc = "find"
    /\ folder' = FindFolderInZip(archive)
    /\ IF folder' = None
       THEN pc' = "raised" /\ err' = "ValueError" /\ zopen' = FALSE
       ELSE pc' = "read_info" /\ UNCHANGED <<err, zopen>>
    /\ UNCHANGED <<held, got>>
    /\ UNCHANGED <<archive, lines, ln, in_sensors, meta, sensors_table, i,
                   sensor_recordings, session>>

\* z.read(session_info_path); KeyError becomes ValueError; entry of _parse_session_info
ReadSessionInfo ==
    /\ pc = "read_info"
    /\ IF HasEntry(archive, Prefix \o <<"session_info.csv">>)
       THEN /\ lines' = ReadEntry(archive, Prefix \o <<"session_info.csv">>)
            /\ pc' = "parse"
            /\ UNCHANGED <<err, zopen>>
       ELSE /\ pc' = "raised" /\ err' = "ValueError" /\ zopen' = FALSE
            /\ UNCHANGED lines
    /\ ln' = 0 /\ in_sensors' = FALSE /\ meta' = EmptyDict /\ sensors_table' = <<>>
    /\ UNCHANGED <<held, got>>
    /\ UNCHANGED <<archive, folder, i, sensor_recordings, session>>

\* one iteration of the loop of _parse_session_info
ParseSessionInfoLine ==
    /\ pc = "parse"
    /\ ln < Len(lines)
    /\ LET st == ParseLine([meta |-> meta, sensors_table |-> sensors_table,
                            in_sensors |-> in_sensors], lines[ln + 1])
       IN  /\ meta' = st.meta
           /\ sensors_table' = st.sensors_table
           /\ in_sensors' = st.in_sensors
    /\ ln' = ln + 1
    /\ UNCHANGED <<held, got>>
    /\ UNCHANGED <<archive, pc, zopen, folder, lines, i, sensor_recordings, session, err>>

\* return of _parse_session_info, discovery fallback and the defaults of id and name
ParseSessionInfoReturn ==
    /\ pc = "parse"
    /\ ln = Len(lines)
    /\ sensors_table' = AssembledTable(archive, Prefix, sensors_table)
    /\ meta' = MetaDefaults(meta)
    /\ i' = 0
    /\ sensor_recordings' = <<>>
    /\ pc' = "sensors"
    /\ UNCHANGED <<held, got>>
    /\ UNCHANGED <<archive, zopen, folder, lines, ln, in_sensors, session, err>>

\* the loop iteration in a body that opens the archive without "with" and
\* closes it only before the return: an exception leaves the handle open
LoadSensorWithoutWith ==
    /\ pc = "sensors"
    /\ i < Len(sensors_table)
    /\ LET recs == RecordingsAfterRow(sensor_recordings, archive, Prefix, i,
                                      sensors_table[i + 1])
       IN  IF recs.ok
           THEN /\ sensor_recordings' = recs.v
                /\ i' = i + 1
                /\ UNCHANGED <<pc, err>>
           ELSE /\ pc' = "raised" /\ err' = recs.exc
                /\ UNCHANGED <<sensor_recordings, i>>
    /\ UNCHANGED <<held, got>>
    /\ UNCHANGED <<archive, zopen, folder, lines, ln, in_sensors, meta, sensors_table, session>>

\* one iteration of "for i, row in enumerate(sensors_table)"
LoadSensor ==
    /\ pc = "sensors"
    /\ i < Len(sensors_table)
    /\ LET recs == RecordingsAfterRow(sensor_recordings, archive, Prefix, i,
                                      sensors_table[i + 1])
       IN  IF recs.ok
           THEN /\ sensor_recordings' = recs.v
                /\ i' = i + 1
                /\ UNCHANGED <<pc, err, zopen>>
           ELSE /\ pc' = "raised" /\ err' = recs.exc /\ zopen' = FALSE
                /\ UNCHANGED <<sensor_recordings, i>>
    /\ UNCHANGED <<held, got>>
    /\ UNCHANGED <<archive, folder, lines, ln, in_sensors, meta, sensors_table, session>>

\* meta["sensorRecordings"] = sensor_recordings; return RecordingSession(meta)
Return ==
    /\ pc = "sensors"
    /\ i = Len(sensors_table)
    /\ meta' = Put(meta, "sensorRecordings", sensor_recordings)
    /\ session' = RecordingSession(meta')
    /\ zopen' = FALSE
    /\ pc' = "returned"
    /\ UNCHANGED <<held, got>>
    /\ UNCHANGED <<archive, folder, lines, ln, in_sensors, sensors_table, i,
                   sensor_recordings, err>>

---------------------------------------------------------------------------
(* The caller of load_from_zip: the list accessors and the point getters *)

MaxMutations == 2

MaxIndex == 3

\* no list has been asked for yet
NoList == [kind |-> "none", k |-> 0, alias |-> FALSE, items |-> <<>>, fresh |-> FALSE, muts |-> 0]

\* no point has been asked for yet
NoCall == [kind |-> "none", k |-> 0, ix |-> 0, result |-> None]

\* the accessor hands out the session's own list object
SameList(xs) == [alias |-> TRUE, items |-> xs]

\* list(xs): a new list object with the same elements
ListCopy(xs) == [alias |-> FALSE, items |-> xs]

\* RecordingSession.sensors()
CallSensors ==
    /\ pc = "returned"
    /\ LET r == ListCopy(session.sensors)
       IN  held' = [kind |-> "sensors", k |-> 0, alias |-> r.alias, items |-> r.items,
                    fresh |-> TRUE, muts |-> held.muts]
    /\ UNCHANGED <<archive, pc, zopen, folder, lines, ln, in_sensors, meta, sensors_table, i,
                   sensor_recordings, session, err, got>>

\* SensorData.heart_rate_points() of a sensor of the session
CallHeartRatePoints ==
    /\ pc = "returned"
    /\ \E k \in 1..Len(session.sensors) :
          LET r == ListCopy(session.sensors[k].hr_points)
          IN  held' = [kind |-> "hr", k |-> k, alias |-> r.alias, items |-> r.items,
                       fresh |-> TRUE, muts |-> held.muts]
    /\ UNCHANGED <<archive, pc, zopen, folder, lines, ln, in_sensors, meta, sensors_table, i,
                   sensor_recordings, session, err, got>>

\* SensorData.rr_points() of a sensor of the session
CallRrPoints ==
    /\ pc = "returned"
    /\ \E k \in 1..Len(session.sensors) :
          LET r == ListCopy(session.sensors[k].rr_points)
          IN  held' = [kind |-> "rr", k |-> k, alias |-> r.alias, items |-> r.items,
                       fresh |-> TRUE, muts |-> held.muts]
    /\ UNCHANGED <<archive, pc, zopen, folder, lines, ln, in_sensors, meta, sensors_table, i,
                   sensor_recordings, session, err, got>>

\* the session after the list h stands for has become xs: only a list that
\* is the session's own object changes the session
SessionWithList(S, h, xs) ==
    IF ~h.alias THEN S
    ELSE CASE h.kind = "sensors" -> [S EXCEPT !.sensors = xs]
           [] h.kind = "hr" -> [S EXCEPT !.sensors[h.k].hr_points = xs]
           [] h.kind = "rr" -> [S EXCEPT !.sensors[h.k].rr_points = xs]

\* the caller changes the list it holds into xs
Mutate(xs) ==
    /\ pc = "returned"
    /\ held.kind # "none"
    /\ held.muts < MaxMutations
    /\ held' = [held EXCEPT !.items = xs, !.fresh = FALSE, !.muts = held.muts + 1]
    /\ session' = SessionWithList(session, held, xs)
    /\ UNCHANGED <<archive, pc, zopen, folder, lines, ln, in_sensors, meta, sensors_table, i,
                   sensor_recordings, err, got>>

\* held.append(x): its first element again, or None for an empty list
ListAppend == Mutate(Append(held.items, IF held.items = <<>> THEN None ELSE held.items[1]))

\* held.pop()
ListPop == held.items # <<>> /\ Mutate(SubSeq(held.items, 1, Len(held.items) - 1))

\* held.reverse()
ListReverse ==
    Mutate([j \in 1..Len(held.items) |-> held.items[Len(held.items) + 1 - j]])

---------------------------------------------------------------------------

\* SensorData.get_heart_rate_point(ix) of a sensor of the session
CallGetHeartRatePoint ==
    /\ pc = "returned"
    /\ \E k \in 1..Len(session.sensors), ix \in (0 - MaxIndex)..MaxIndex :
          got' = [kind |-> "hr", k |-> k, ix |-> ix,
                  result |-> get_heart_rate_point(session.sensors[k], ix)]
    /\ UNCHANGED <<archive, pc, zopen, folder, lines, ln, in_sensors, meta, sensors_table, i,
                   sensor_recordings, session, err, held>>

\* SensorData.get_rr_point(ix) of a sensor of the session
CallGetRrPoint ==
    /\ pc = "returned"
    /\ \E k \in 1..Len(session.sensors), ix \in (0 - MaxIndex)..MaxIndex :
          got' = [kind |-> "rr", k |-> k, ix |-> ix,
                  result |-> get_rr_point(session.sensors[k], ix)]
    /\ UNCHANGED <<archive, pc, zopen, folder, lines, ln, in_sensors, meta, sensors_table, i,
                   sensor_recordings, session, err, held>>

---------------------------------------------------------------------------

(* The archives loaded.  Each family varies one part of the export written *)
(* by make_ios_style_zip and keeps the rest of that fixture.               *)

MaxEntries == 3

MaxRows == 2

MaxLines == 3

\* all sequences over S of length lo..hi
SeqsOf(S, lo, hi) == UNION {[1..n -> S] : n \in lo..hi}

Entry(n, c) == [name |-> n, content |-> c]

RECURSIVE Flatten(_)
Flatten(ss) == IF ss = <<>> THEN <<>> ELSE Head(ss) \o Flatten(Tail(ss))

FixFolder == <<"recording", "_", "testid123", "_", "csv">>

FixPrefix == FixFolder \o <<"/">>

InfoName(top) == top \o <<"/", "session_info.csv">>

SensorFile(top, n, sid, kind) == top \o <<"/", "sensor", "_", n, "_">> \o sid \o <<"_", kind>>

KV(key, value) == <<key, ",">> \o value

T0Z == <<"2024-05-15T19:30:00.000", "Z">>

T300Z == <<"2024-05-15T19:35:00.000", "Z">>

\* the key,value block of the fixture, without the two time lines
FixHead ==
    << <<"Recording Information">>, <<>>,
       KV("Session ID", <<"testid123">>),
       KV("Recording Name", <<"Test Recording">>) >>

FixTail ==
    << KV("Number of Sensors", <<"1">>),
       KV("Total Data Points", <<"120">>),
       KV("Average Heart Rate (BPM)", <<"72.5">>),
       KV("Average SDNN (ms)", <<"45.20">>),
       KV("Average RMSSD (ms)", <<"38.70">>),
       <<>> >>

FixTimes ==
    << KV("Start Time", T0Z), KV("End Time", T300Z), KV("Duration (seconds)", <<"300.0">>) >>

TableHead ==
    << <<"Sensors">>,
       Join(<< <<"Sensor ID">>, <<"Sensor Name">>, <<"HR Samples">>, <<"RR Samples">>,
               <<"Avg HR">>, <<"SDNN">>, <<"RMSSD">> >>, <<",">>) >>

FixRow == Join(<< <<"ABC123">>, <<"Polar H10 ABC123">>, <<"60">>, <<"60">>, <<"72">>,
                  <<"45.20">>, <<"38.70">> >>, <<",">>)

HrHeader == Join(<< <<"Timestamp">>, <<"Unix Time">>, <<"Monotonic Time">>,
                    <<"Heart Rate (BPM)">> >>, <<",">>)

RrHeader == Join(<< <<"Timestamp">>, <<"Unix Time">>, <<"Monotonic Time">>,
                    <<"RR Interval (ms)">> >>, <<",">>)

PointLine(ts, unix, mono, value) == Join(<<ts, unix, mono, value>>, <<",">>)

FixHr ==
    << HrHeader,
       PointLine(<<"2024-05-15T19:30:00", "Z">>, <<"100.1">>, <<"100.1">>, <<"70">>),
       PointLine(<<"2024-05-15T19:30:01", "Z">>, <<"101.1">>, <<"101.1">>, <<"72">>) >>

FixRr ==
    << RrHeader,
       PointLine(<<"2024-05-15T19:30:00", "Z">>, <<"100.1">>, <<"100.1">>, <<"820">>),
       PointLine(<<"2024-05-15T19:30:01", "Z">>, <<"101.1">>, <<"101.1">>, <<"815">>) >>

FixStats ==
    << KV("Metric", <<"Value">>),
       KV("Sensor ID", <<"ABC123">>),
       KV("Sensor Name", <<"Polar H10 ABC123">>),
       KV("Duration (seconds)", <<"300.0">>),
       KV("Heart Rate Samples", <<"60">>),
       KV("RR Interval Samples", <<"60">>),
       KV("Min Heart Rate (BPM)", <<"65">>),
       KV("Max Heart Rate (BPM)", <<"85">>),
       KV("Average Heart Rate (BPM)", <<"72">>),
       KV("SDNN (ms)", <<"45.20">>),
       KV("RMSSD (ms)", <<"38.70">>),
       KV("HRV Window", <<"5 Minutes">>),
       KV("HRV Sample Count", <<"60">>) >>

\* --- family A: the entry names ---

\* the Session ID written in the session_info.csv of a folder names the folder
InfoOf(tag) == << KV("Session ID", <<tag>>) >>

NamedEntries ==
    { Entry(InfoName(FixFolder), InfoOf("testid123")),
      Entry(SensorFile(FixFolder, "1", <<"ABC123">>, "hr.csv"), FixHr),
      Entry(InfoName(<<"recording", "_", "csv">>), InfoOf("overlap")),
      Entry(InfoName(<<"recording", "_", "b", "_", "csv">>), InfoOf("b")),
      Entry(InfoName(<<"other">>), InfoOf("other")),
      Entry(InfoName(<<"data", "_", "csv">>), InfoOf("data")),
      Entry(<<"session_info.csv">>, InfoOf("top")),
      Entry(<<"recording", "_", "c", "_", "csv">>, InfoOf("file")) }

StructureArchives ==
    {z \in SeqsOf(NamedEntries, 1, MaxEntries) :
        \A j, k \in 1..Len(z) : j # k => z[j].name # z[k].name}

\* --- family B: the time lines of session_info.csv ---

StartTexts ==
    { T0Z, <<"2024-05-15T19:30:00">>, <<" ", "2024-05-15T19:30:00", "+00:00", " ">>,
      <<"yesterday">>, <<>> }

EndTexts == { T300Z, <<"2024-05-15T19:35:00">>, <<"2024-05-15T19:30:00", "Z">>, <<"later">> }

DurationTexts == { <<"300.0">>, <<"7.5">>, <<"abc">> }

\* a line is written with one of the texts, or left out
OptLine(key, texts) == {<<>>} \cup {<<KV(key, v)>> : v \in texts}

\* the files of the fixture's sensor
FixSensorFiles ==
    << Entry(SensorFile(FixFolder, "1", <<"ABC123">>, "hr.csv"), FixHr),
       Entry(SensorFile(FixFolder, "1", <<"ABC123">>, "rr.csv"), FixRr),
       Entry(SensorFile(FixFolder, "1", <<"ABC123">>, "statistics.csv"), FixStats) >>

TimeArchives ==
    { << Entry(InfoName(FixFolder),
               FixHead \o st \o en \o du \o FixTail \o TableHead \o <<FixRow>>) >>
      \o FixSensorFiles :
        st \in OptLine("Start Time", StartTexts),
        en \in OptLine("End Time", EndTexts),
        du \in OptLine("Duration (seconds)", DurationTexts) }

\* --- family C: the rows of the Sensors table and the files present ---

Row(fields) == Join(fields, <<",">>)

\* each row with the sensor id its files are exported under
TableRows ==
    { [sid |-> <<"ABC123">>, line |-> FixRow],
      [sid |-> <<"ABC123">>,
       line |-> Row(<< <<"ABC123">>, <<"My">>, <<" ", "Polar Strap">>, <<"60">>, <<"60">>,
                       <<"72">>, <<"45.20">>, <<"38.70">> >>)],
      [sid |-> <<"DEF456">>,
       line |-> Row(<< <<"DEF456">>, <<"\"", "My", ",", " ", "Polar Strap", "\"">>, <<"60">>,
                       <<"60">>, <<"0">>, <<"0">>, <<"0">> >>)],
      [sid |-> <<"XYZ">>,
       line |-> Row(<< <<"XYZ">>, <<"Strap">>, <<"60">>, <<"60">>, <<"nan">>, <<"0">>,
                       <<"38.70">> >>)],
      [sid |-> <<"XYZ">>,
       line |-> Row(<< <<" ", "XYZ">>, <<"Strap", " ">>, <<"x">>, <<"60">>, <<"72.9">>,
                       <<"abc">>, <<"45.20">> >>)],
      [sid |-> <<"DEF456">>,
       line |-> Row(<< <<"DEF456">>, <<"H10 DEF456">>, <<"60">>, <<"60">>, <<"65">>,
                       <<"38.70">>, <<"0">> >>)],
      [sid |-> <<"ABC123">>,
       line |-> Row(<< <<"ABC123">>, <<"short">>, <<"1">>, <<"2">> >>)] }

\* which of a sensor's three files the export holds
FileKinds == { {"hr.csv", "rr.csv", "statistics.csv"}, {"hr.csv", "rr.csv"},
               {"statistics.csv"}, {} }

\* the statistics file written for a sensor: no Average Heart Rate line for DEF456
StatsFor(sid) ==
    IF sid = <<"DEF456">>
    THEN << KV("Metric", <<"Value">>), KV("Sensor ID", sid), KV("SDNN (ms)", <<"45.20">>) >>
    ELSE FixStats

ContentOf(kind, sid) ==
    CASE kind = "hr.csv" -> FixHr
      [] kind = "rr.csv" -> FixRr
      [] kind = "statistics.csv" -> StatsFor(sid)

\* the files of the k-th row, in a fixed order
RowFiles(k, r, kinds) ==
    LET f(kind) == IF kind \in kinds
                   THEN <<Entry(SensorFile(FixFolder, PyStr(k), r.sid, kind), ContentOf(kind, r.sid))>>
                   ELSE <<>>
    IN  f("hr.csv") \o f("rr.csv") \o f("statistics.csv")

RowArchives ==
    { << Entry(InfoName(FixFolder),
               FixHead \o FixTimes \o FixTail \o TableHead \o [k \in 1..Len(rs) |-> rs[k].line]) >>
      \o Flatten([k \in 1..Len(rs) |-> RowFiles(k, rs[k], kinds)]) :
        rs \in SeqsOf(TableRows, 0, MaxRows), kinds \in FileKinds }

\* --- family D: the lines of a sensor's _hr.csv ---

HrLines ==
    { HrHeader,
      PointLine(<<"2024-05-15T19:30:00", "Z">>, <<"100.1">>, <<"100.1">>, <<"70">>),
      PointLine(<<" ", "2024-05-15T19:30:01", "Z">>, <<" ", "101.1">>, <<"101.1", " ">>,
                <<" ", "72", " ">>),
      PointLine(<<"2024-05-15T19:30:00", "Z">>, <<"100.1">>, <<"x">>, <<"65">>),
      Join(<< <<"2024-05-15T19:30:00", "Z">>, <<"100.1">>, <<"60">> >>, <<",">>),
      PointLine(<<"soon">>, <<"100.1">>, <<"nan">>, <<"85">>),
      Join(<< <<"2024-05-15T19:35:00">>, <<"1">>, <<"2">>, <<"120">>, <<"extra">> >>, <<",">>),
      PointLine(<<"2024-05-15T19:30:00", "Z">>, <<"100.1">>, <<"100.1">>, <<"72.5">>),
      <<>> }

HrArchives ==
    { << Entry(InfoName(FixFolder), FixHead \o FixTimes \o FixTail \o TableHead \o <<FixRow>>),
         Entry(SensorFile(FixFolder, "1", <<"ABC123">>, "hr.csv"), c),
         Entry(SensorFile(FixFolder, "1", <<"ABC123">>, "rr.csv"), FixRr) >> :
        c \in SeqsOf(HrLines, 0, MaxLines) }

\* --- family E: the lines of a sensor's _rr.csv ---

RrLines ==
    { RrHeader,
      PointLine(<<"2024-05-15T19:30:00", "Z">>, <<"100.1">>, <<"100.1">>, <<"820">>),
      PointLine(<<"never">>, <<"101.1">>, <<"101.1">>, <<"815">>),
      PointLine(<<"2024-05-15T19:30:01", "Z">>, <<"fast">>, <<"101.1">>, <<"815">>),
      <<>> }

RrArchives ==
    { << Entry(InfoName(FixFolder), FixHead \o FixTimes \o FixTail \o TableHead \o <<FixRow>>),
         Entry(SensorFile(FixFolder, "1", <<"ABC123">>, "hr.csv"), FixHr),
         Entry(SensorFile(FixFolder, "1", <<"ABC123">>, "rr.csv"), c) >> :
        c \in SeqsOf(RrLines, 0, MaxLines) }

\* --- family F: _hr.csv entries without a Sensors table ---

MaxSensorFiles == 3

\* a one-point _hr.csv whose value tells the entries apart
OnePointHr(value) ==
    << HrHeader, PointLine(<<"2024-05-15T19:30:00", "Z">>, <<"100.1">>, <<"100.1">>, <<value>>) >>

SensorEntries ==
    { Entry(SensorFile(FixFolder, "1", <<"XYZ">>, "hr.csv"), OnePointHr("60")),
      Entry(SensorFile(FixFolder, "2", <<"A", "_", "B">>, "hr.csv"), OnePointHr("65")),
      Entry(SensorFile(FixFolder, "3", <<"XYZ">>, "hr.csv"), OnePointHr("70")),
      Entry(SensorFile(FixFolder, "x", <<"Q">>, "hr.csv"), OnePointHr("72")),
      Entry(SensorFile(FixFolder, "2", <<"XYZ">>, "hr.csv"), OnePointHr("85")),
      Entry(SensorFile(FixFolder, "1", <<"A", "_", "B">>, "hr.csv"), OnePointHr("120")),
      Entry(SensorFile(FixFolder, "1", <<"XYZ">>, "rr.csv"), FixRr) }

\* session_info.csv without a table, with a table of one short row, with the fixture's row
TableTexts ==
    { <<>>,
      TableHead \o << Row(<< <<"ABC123">>, <<"short">>, <<"1">>, <<"2">> >>) >>,
      TableHead \o <<FixRow>> }

DiscoveryArchives ==
    { << Entry(InfoName(FixFolder), InfoOf("testid123") \o tt) >> \o fs :
        tt \in TableTexts,
        fs \in {z \in SeqsOf(SensorEntries, 0, MaxSensorFiles) :
                   \A j, k \in 1..Len(z) : j # k => z[j].name # z[k].name} }

\* --- family G: the lines of session_info.csv ---

MaxInfoLines == 3

InfoLines ==
    { KV("Session ID", <<"testid123">>),
      KV("Session ID", <<>>),
      KV("Recording Name", <<"My", ",", " ", "Recording">>),
      KV("Unknown Key", <<"5">>),
      <<"Recording Information">>,
      <<>>,
      <<"Sensors">>,
      <<" ", "Sensors", " ">>,
      FixRow }

InfoArchives ==
    { <<Entry(InfoName(FixFolder), c)>> \o FixSensorFiles : c \in SeqsOf(InfoLines, 0, MaxInfoLines) }

\* --- family H: the lines of a sensor's _statistics.csv ---

MaxStatLines == 3

StatTexts ==
    { KV("Metric", <<"Value">>),
      KV("Min Heart Rate (BPM)", <<"65">>),
      KV("Min Heart Rate (BPM)", <<"abc">>),
      KV("Average Heart Rate (BPM)", <<"72.5">>),
      KV("SDNN (ms)", <<"7.5">>),
      KV("RMSSD (ms)", <<"fast">>),
      KV("HRV Window", <<"5 Minutes", ",", " ", "rest">>),
      KV("Unknown Metric", <<"3">>),
      KV("HRV Sample Count", <<"60">>) }

StatsArchives ==
    { << Entry(InfoName(FixFolder), FixHead \o FixTimes \o FixTail \o TableHead \o <<FixRow>>),
         Entry(SensorFile(FixFolder, "1", <<"ABC123">>, "hr.csv"), FixHr),
         Entry(SensorFile(FixFolder, "1", <<"ABC123">>, "statistics.csv"), c) >> :
        c \in SeqsOf(StatTexts, 0, MaxStatLines) }

\* --- family I: the lines after the column header of the Sensors table ---

MaxTableLines == 3

TableLines ==
    { FixRow,
      TableHead[2],
      Row(<< <<"ABC123">>, <<"short">>, <<"1">>, <<"2">> >>),
      <<>>,
      <<"Sensors">>,
      Row(<< <<"XYZ">>, <<"Sensor Name", " ", "Sensor ID">>, <<"60">>, <<"60">>, <<"72">>,
             <<"45.20">>, <<"38.70">> >>),
      Row(<< <<"DEF456">>, <<"My">>, <<" ", "Polar Strap">>, <<"x">>, <<"60">>, <<"nan">>,
             <<"abc">>, <<" ", "7.5">> >>),
      Row(<< <<"DEF456">>, <<"\"", "My", ",", " ", "Polar Strap", "\"">>, <<"1">>, <<"2">> >>) }

TableArchives ==
    { <<Entry(InfoName(FixFolder), InfoOf("testid123") \o TableHead \o c)>> \o FixSensorFiles :
        c \in SeqsOf(TableLines, 0, MaxTableLines) }

Archives ==
    StructureArchives \cup TimeArchives \cup RowArchives \cup HrArchives \cup RrArchives
        \cup DiscoveryArchives \cup InfoArchives \cup StatsArchives
        \cup TableArchives

---------------------------------------------------------------------------

Init ==
    /\ archive \in Archives
    /\ pc = "start"
    /\ zopen = FALSE
    /\ folder = None
    /\ lines = <<>>
    /\ ln = 0
    /\ in_sensors = FALSE
    /\ meta = EmptyDict
    /\ sensors_table = <<>>
    /\ i = 0
    /\ sensor_recordings = <<>>
    /\ session = None
    /\ err = ""
    /\ held = NoList
    /\ got = NoCall

Next ==
    \/ Open
    \/ FindFolder
    \/ ReadSessionInfo
    \/ ParseSessionInfoLine
    \/ ParseSessionInfoReturn
    \/ LoadSensor
    \/ Return

Spec == Init /\ [][Next]_vars

---------------------------------------------------------------------------
(* The load followed by its caller: exports of 0..MaxRows sensors, with  *)
(* and without point files                                               *)

ClientRows ==
    { [sid |-> <<"ABC123">>, line |-> FixRow],
      [sid |-> <<"DEF456">>,
       line |-> Row(<< <<"DEF456">>, <<"H10 DEF456">>, <<"60">>, <<"60">>, <<"65">>,
                       <<"38.70">>, <<"0">> >>)] }

ClientArchives ==
    { << Entry(InfoName(FixFolder),
               FixHead \o FixTimes \o FixTail \o TableHead \o [k \in 1..Len(rs) |-> rs[k].line]) >>
      \o Flatten([k \in 1..Len(rs) |-> RowFiles(k, rs[k], kinds)]) :
        rs \in SeqsOf(ClientRows, 0, MaxRows), kinds \in {{"hr.csv", "rr.csv"}, {}} }

InitClient ==
    /\ archive \in ClientArchives
    /\ pc = "start"
    /\ zopen = FALSE
    /\ folder = None
    /\ lines = <<>>
    /\ ln = 0
    /\ in_sensors = FALSE
    /\ meta = EmptyDict
    /\ sensors_table = <<>>
    /\ i = 0
    /\ sensor_recordings = <<>>
    /\ session = None
    /\ err = ""
    /\ held = NoList
    /\ got = NoCall

NextClient ==
    \/ Open
    \/ FindFolder
    \/ ReadSessionInfo
    \/ ParseSessionInfoLine
    \/ ParseSessionInfoReturn
    \/ LoadSensor
    \/ Return
    \/ CallSensors
    \/ CallHeartRatePoints
    \/ CallRrPoints
    \/ ListAppend
    \/ ListPop
    \/ ListReverse

SpecClient == InitClient /\ [][NextClient]_vars

NextGetters ==
    \/ Open
    \/ FindFolder
    \/ ReadSessionInfo
    \/ ParseSessionInfoLine
    \/ ParseSessionInfoReturn
    \/ LoadSensor
    \/ Return
    \/ CallGetHeartRatePoint
    \/ CallGetRrPoint

SpecGetters == InitClient /\ [][NextGetters]_vars

---------------------------------------------------------------------------

(* Properties *)

Finished == pc \in {"returned", "raised"}

\* a top-level folder name of the documented form recording_<id>_csv
IsRecordingFolderName(top) ==
    /\ Len(top) >= 4
    /\ SubSeq(top, 1, 2) = <<"recording", "_">>
    /\ SubSeq(top, Len(top) - 1, Len(top)) = <<"_", "csv">>

\* some entry of the archive lies in a folder recording_<id>_csv
HasRecordingFolder(z) ==
    \E k \in 1..Len(z) :
        \E p \in 1..Len(z[k].name) :
            /\ z[k].name[p] = "/"
            /\ \A q \in 1..(p - 1) : z[k].name[q] # "/"
            /\ IsRecordingFolderName(SubSeq(z[k].name, 1, p - 1))

\* the folder was found and holds no session_info.csv
LacksSessionInfo == folder # None /\ ~HasEntry(archive, folder.s \o <<"/", "session_info.csv">>)

\* C1: when no entry lies in a folder named recording_<id>_csv, or the folder
\* has no session_info.csv, load_from_zip ends with an error and no session.
C1_StructuralAbsenceFails ==
    (Finished /\ (~HasRecordingFolder(archive) \/ LacksSessionInfo))
        => (pc = "raised" /\ err = "ValueError" /\ session = None)

\* C2: every archive that holds the recording folder and its session_info.csv
\* loads: load_from_zip raises only for a missing folder or session_info.csv.
C2_OnlyStructuralAbsenceIsFatal ==
    pc = "raised" => (folder = None \/ LacksSessionInfo)

\* C3: a loaded session has one sensor record per row of the assembled table,
\* in row order; sensor_count is the number of rows and the length of
\* sensors(); a sensor without HR (RR) file has no HR (RR) points.
C3_OneSensorPerRow ==
    pc = "returned" =>
        /\ sensor_count(session) = Len(sensors_table)
        /\ Len(sensors(session)) = Len(sensors_table)
        /\ \A k \in 1..Len(sensors_table) :
              /\ k <= Len(sensors(session))
              /\ sensor_id(sensors(session)[k]) = sensors_table[k].sensor_id
              /\ sensor_name(sensors(session)[k]) = sensors_table[k].sensor_name
              /\ ~HasEntry(archive, HrPath(Prefix, k - 1, sensors_table[k]))
                    => heart_rate_points(sensors(session)[k]) = <<>>
              /\ ~HasEntry(archive, RrPath(Prefix, k - 1, sensors_table[k]))
                    => rr_points(sensors(session)[k]) = <<>>

\* two rows were loaded and the first sensor has neither HR nor RR file
C3_Witness ==
    /\ pc = "returned"
    /\ Len(sensors_table) = 2
    /\ sensor_count(session) = 2
    /\ ~HasEntry(archive, HrPath(Prefix, 0, sensors_table[1]))
    /\ ~HasEntry(archive, RrPath(Prefix, 0, sensors_table[1]))
    /\ sensor_id(sensors(session)[1]) # sensor_id(sensors(session)[2])

\* --- the same recording as the JSON of the app's API ---

\* d with the keys in DOMAIN ren renamed
Rekey(d, ren) ==
    LET to(k) == IF k \in DOMAIN ren THEN ren[k] ELSE k
    IN  [k2 \in {to(k) : k \in DOMAIN d} |-> d[CHOOSE k \in DOMAIN d : to(k) = k2]]

\* a parsed instant as JSON carries it: an ISO string; an absent one as null
JsonTime(v) == IF v = None THEN None ELSE Str(IsoFormat(v))

\* the dict load_from_zip assembles, hand-built as JSON with the same values
JsonDict(data) ==
    [k \in DOMAIN data |->
        IF k \in {"startDate", "endDate"} THEN JsonTime(data[k]) ELSE data[k]]

SnakePointKeys == [monotonicTimestamp |-> "monotonic_timestamp"]

SnakeStatisticsKeys ==
    [minHeartRate |-> "min_heart_rate", maxHeartRate |-> "max_heart_rate",
     averageHeartRate |-> "average_heart_rate", hrvWindow |-> "hrv_window",
     hrvSampleCount |-> "hrv_sample_count"]

SnakeSensorKeys ==
    [sensorId |-> "sensor_id", sensorName |-> "sensor_name",
     heartRateData |-> "heart_rate_data", rrIntervalData |-> "rr_interval_data"]

SnakeSessionKeys ==
    [sensorRecordings |-> "sensor_recordings", startDate |-> "start_date",
     endDate |-> "end_date"]

SnakePoints(ps) == [k \in 1..Len(ps) |-> Rekey(ps[k], SnakePointKeys)]

SnakeStatistics(st) == Rekey(st, SnakeStatisticsKeys)

SnakeSensor(s) ==
    Rekey([k \in DOMAIN s |->
              CASE k \in {"heartRateData", "rrIntervalData"} -> SnakePoints(s[k])
                [] k = "statistics" -> SnakeStatistics(s[k])
                [] OTHER -> s[k]],
          SnakeSensorKeys)

SnakeSensors(ss) == [k \in 1..Len(ss) |-> SnakeSensor(ss[k])]

\* the camelCase dict written entirely with snake_case keys
SnakeDict(data) ==
    Rekey([k \in DOMAIN data |->
              IF k = "sensorRecordings" THEN SnakeSensors(data[k]) ELSE data[k]],
          SnakeSessionKeys)

\* the four derived statistics of a session
DerivedStatistics(S) ==
    [average_heart_rate |-> average_heart_rate(S),
     average_sdnn |-> average_sdnn(S),
     average_rmssd |-> average_rmssd(S),
     duration_seconds |-> duration_seconds(S)]

\* C4: the session built from the dict load_from_zip assembles and the session
\* built from the JSON dict with the same values (instants as ISO strings) have
\* the same average_heart_rate, average_sdnn, average_rmssd, duration_seconds.
C4_ZipAndJsonAgree ==
    pc = "returned" =>
        DerivedStatistics(session) = DerivedStatistics(RecordingSession(JsonDict(session.data)))

\* a loaded session with parsed start and end, a duration and a sensor with HRV
C4_Witness ==
    /\ pc = "returned"
    /\ Get(session.data, "startDate", None) = Dt(0, TRUE)
    /\ Get(JsonDict(session.data), "startDate", None) = Str(<<"2024-05-15T19:30:00", "+00:00">>)
    /\ duration_seconds(session) = Ok(300)
    /\ sensor_count(session) >= 1
    /\ average_sdnn(session).num > 0
    /\ average_heart_rate(session).num > 0

\* every accessor of a sensor
SensorView(sd) ==
    [sensor_id |-> sensor_id(sd), sensor_name |-> sensor_name(sd),
     heart_rate_points |-> heart_rate_points(sd), rr_points |-> rr_points(sd),
     data_point_count |-> data_point_count(sd),
     heart_rate_min |-> heart_rate_min(sd), heart_rate_max |-> heart_rate_max(sd),
     heart_rate_avg |-> heart_rate_avg(sd), sdnn |-> sdnn(sd), rmssd |-> rmssd(sd),
     hrv_window |-> hrv_window(sd), hrv_sample_count |-> hrv_sample_count(sd)]

\* every accessor of a session
SessionView(S) ==
    [id |-> id(S), name |-> name(S), start_date |-> start_date(S), end_date |-> end_date(S),
     sensor_count |-> sensor_count(S), total_data_points |-> total_data_points(S),
     derived |-> DerivedStatistics(S),
     sensors |-> [k \in 1..Len(sensors(S)) |-> SensorView(sensors(S)[k])]]

\* C5: a session dict written entirely with snake_case keys gives a session
\* whose every accessor returns the same value as for the camelCase dict.
C5_SnakeCaseEquivalent ==
    pc = "returned" =>
        SessionView(RecordingSession(SnakeDict(JsonDict(session.data))))
            = SessionView(RecordingSession(JsonDict(session.data)))

\* the sum of f over a finite set of indices
RECURSIVE SumOver(_, _)
SumOver(K, f) ==
    IF K = {} THEN 0
    ELSE LET k == CHOOSE x \in K : TRUE IN f[k] + SumOver(K \ {k}, f)

\* q is the fraction total / count
IsFraction(q, total, count) == q.den > 0 /\ q.num * count = q.den * total

\* q is the mean of the values vals[k], k in K, and 0 when K is empty
IsMeanOver(q, K, vals) ==
    IF K = {} THEN q.num = 0 ELSE IsFraction(q, SumOver(K, vals), Cardinality(K))

\* the sensors whose sdnn is strictly greater than 0
PositiveSdnnSensors(S) ==
    {k \in 1..Len(sensors(S)) : ~sdnn(sensors(S)[k]).nan /\ sdnn(sensors(S)[k]).c > 0}

\* the sensors whose rmssd is strictly greater than 0
PositiveRmssdSensors(S) ==
    {k \in 1..Len(sensors(S)) : ~rmssd(sensors(S)[k]).nan /\ rmssd(sensors(S)[k]).c > 0}

\* C6: average_sdnn (average_rmssd) is the mean over exactly the sensors whose
\* sdnn (rmssd) is strictly greater than 0, and 0 when there is none.
C6_HrvAveragesSkipZero ==
    pc = "returned" =>
        /\ IsMeanOver(average_sdnn(session), PositiveSdnnSensors(session),
                      [k \in 1..Len(sensors(session)) |-> sdnn(sensors(session)[k]).c])
        /\ IsMeanOver(average_rmssd(session), PositiveRmssdSensors(session),
                      [k \in 1..Len(sensors(session)) |-> rmssd(sensors(session)[k]).c])

\* two sensors, sdnn 45.20 and 0: the average is 45.20, not 22.60; likewise rmssd
C6_Witness ==
    /\ pc = "returned"
    /\ sensor_count(session) = 2
    /\ sdnn(sensors(session)[1]) = Fl(4520)
    /\ sdnn(sensors(session)[2]) = Fl(0)
    /\ average_sdnn(session) = [num |-> 4520, den |-> 1]
    /\ rmssd(sensors(session)[2]) = Fl(0)
    /\ average_rmssd(session) = [num |-> 3870, den |-> 1]

\* C7: average_heart_rate is the sum of heart_rate_avg over all sensors divided
\* by the number of sensors, zero averages counted, and 0 without sensors; the
\* metadata's Average Heart Rate (BPM) plays no part.
C7_AverageHeartRate ==
    pc = "returned" =>
        IsMeanOver(average_heart_rate(session), 1..Len(sensors(session)),
                   [k \in 1..Len(sensors(session)) |-> heart_rate_avg(sensors(session)[k])])

\* two sensors with averages 72 and 0 give 36, while the metadata says 72.5
C7_Witness ==
    /\ pc = "returned"
    /\ sensor_count(session) = 2
    /\ heart_rate_avg(sensors(session)[1]) = 72
    /\ heart_rate_avg(sensors(session)[2]) = 0
    /\ average_heart_rate(session) = [num |-> 36, den |-> 1]
    /\ Get(session.data, "averageHeartRate", Fl(0)) = Fl(7250)

\* start and end of the session as the loader parsed them
ParsedStart == Get(meta, "startDate", None)

ParsedEnd == Get(meta, "endDate", None)

\* C8: duration_seconds is end minus start when both timestamps are present
\* and parsable and 0 otherwise, whatever Duration (seconds) and the points say.
C8_DurationIsEndMinusStart ==
    pc = "returned" =>
        duration_seconds(session) =
            IF ParsedStart # None /\ ParsedEnd # None
            THEN Ok(ParsedEnd.t - ParsedStart.t)
            ELSE Ok(0)

\* a sensor row that csv.reader splits into more than 7 fields, written unquoted
IsLongRow(line) ==
    /\ Strip(line) # <<>>
    /\ ~Contains(line, "\"")
    /\ Len(CsvReader(line)[1]) > 7

\* the text between the first comma and the fifth comma from the end
NameAsWritten(line) ==
    LET parts == Split(line, ",")
    IN  Join(SubSeq(parts, 2, Len(parts) - 5), <<",">>)

\* the text after the k-th comma from the end, up to the next comma
TrailingField(line, k) ==
    LET parts == Split(line, ",") IN parts[Len(parts) + 1 - k]

\* C9: a sensor row with commas in its name (more than 7 fields) gives the
\* name exactly as written between the id and the five trailing fields, and
\* the five trailing fields give hr_samples, rr_samples, avg_hr, sdnn, rmssd.
C9_NameWithCommasKept ==
    [][(pc = "parse" /\ ln < Len(lines) /\ in_sensors /\ IsLongRow(lines[ln + 1]))
        => /\ Len(sensors_table') = Len(sensors_table) + 1
           /\ LET row == sensors_table'[Len(sensors_table')]
                  line == lines[ln + 1]
              IN  /\ row.sensor_name = NameAsWritten(line)
                  /\ row.hr_samples = RowInt(TrailingField(line, 5))
                  /\ row.rr_samples = RowInt(TrailingField(line, 4))
                  /\ row.avg_hr = RowFloat(TrailingField(line, 3))
                  /\ row.sdnn = RowFloat(TrailingField(line, 2))
                  /\ row.rmssd = RowFloat(TrailingField(line, 1))]_vars

\* a data row of a point file that yields a point: at least 4 comma-separated
\* fields, of which the 2nd and 3rd parse as float and the 4th as int
IsValidPointRow(line) ==
    LET parts == Split(line, ",")
    IN  /\ Len(parts) >= 4
        /\ PyFloat(parts[2]).ok
        /\ PyFloat(parts[3]).ok
        /\ PyInt(parts[4]).ok

\* the integer value of a valid row
PointRowValue(line) == PyInt(Split(line, ",")[4]).v

\* the values of the valid rows of ls, in order
RECURSIVE ValidRowValues(_)
ValidRowValues(ls) ==
    IF ls = <<>> THEN <<>>
    ELSE (IF IsValidPointRow(Head(ls)) THEN <<PointRowValue(Head(ls))>> ELSE <<>>)
         \o ValidRowValues(Tail(ls))

PointValues(ps) == [k \in 1..Len(ps) |-> ps[k].value]

\* the lines after the first line of the file
AfterFirstLine(c) == IF c = <<>> THEN <<>> ELSE Tail(c)

IsBlankLine(line) == \A k \in 1..Len(line) : line[k] = " "

\* the lines after the first line that is not blank
AfterFirstNonBlankLine(c) ==
    IF \A k \in 1..Len(c) : IsBlankLine(c[k]) THEN <<>>
    ELSE LET h == CHOOSE k \in 1..Len(c) :
                     ~IsBlankLine(c[k]) /\ \A j \in 1..(k - 1) : IsBlankLine(c[j])
         IN  SubSeq(c, h + 1, Len(c))

\* the rows of a point file after its header, the header being the first line
\* or the first line that is not blank
RowsAfterHeader(c, header) ==
    IF header = "first line" THEN AfterFirstLine(c) ELSE AfterFirstNonBlankLine(c)

\* the points of every loaded sensor are those of the valid rows after the header
PointsAreValidRowsAfter(header) ==
    \A k \in 1..Len(sensors_table) :
        /\ HasEntry(archive, HrPath(Prefix, k - 1, sensors_table[k])) =>
              PointValues(heart_rate_points(sensors(session)[k]))
                = ValidRowValues(RowsAfterHeader(
                      ReadEntry(archive, HrPath(Prefix, k - 1, sensors_table[k])), header))
        /\ HasEntry(archive, RrPath(Prefix, k - 1, sensors_table[k])) =>
              PointValues(rr_points(sensors(session)[k]))
                = ValidRowValues(RowsAfterHeader(
                      ReadEntry(archive, RrPath(Prefix, k - 1, sensors_table[k])), header))

\* C10 as stated: the first line of a sensor's _hr.csv or _rr.csv is discarded
\* as header; every later row with at least 4 fields whose 2nd, 3rd and 4th
\* field parse (float, float, int) yields one point with the row's integer
\* value, in file order, and every other row is dropped.
C10_FirstLineIsHeader ==
    pc = "returned" => PointsAreValidRowsAfter("first line")

\* C10 amended: the header discarded is the first line that is not blank,
\* together with the blank lines before it.
C10_FirstNonBlankLineIsHeader ==
    pc = "returned" => PointsAreValidRowsAfter("first line that is not blank")

\* an HR file of a header and three rows: a row with a non-numeric monotonic
\* field is dropped, a row with an unparsable timestamp is kept
C10_Witness ==
    /\ pc = "returned"
    /\ sensor_count(session) = 1
    /\ HasEntry(archive, HrPath(Prefix, 0, sensors_table[1]))
    /\ LET c == ReadEntry(archive, HrPath(Prefix, 0, sensors_table[1]))
           ps == heart_rate_points(sensors(session)[1])
       IN  /\ Len(c) = 3
           /\ c[1] = HrHeader
           /\ Len(ps) = 1
           /\ ps[1].timestamp = DatetimeMin
           /\ ps[1].value = 85

---------------------------------------------------------------------------
(* C11: the discovery fallback *)

\* nm is prefix + sensor_<index>_<sensorId>_hr.csv with an integer index
IsSensorHrName(nm, prefix) ==
    LET n == Len(prefix)
    IN  /\ Len(nm) >= n + 6
        /\ SubSeq(nm, 1, n) = prefix
        /\ SubSeq(nm, n + 1, n + 2) = <<"sensor", "_">>
        /\ nm[n + 3] \in DOMAIN IntLit
        /\ nm[n + 4] = "_"
        /\ SubSeq(nm, Len(nm) - 1, Len(nm)) = <<"_", "hr.csv">>

\* the index written in such a name
NameIndex(nm, prefix) == IntLit[nm[Len(prefix) + 3]]

\* everything between the index and _hr.csv
NameSensorId(nm, prefix) == SubSeq(nm, Len(prefix) + 5, Len(nm) - 2)

\* rows is what the claim says discovery yields for archive z
IsDiscoveryOf(rows, z, prefix) ==
    LET K == {k \in 1..Len(z) : IsSensorHrName(z[k].name, prefix)}
        from(j, k) == /\ rows[j].index = NameIndex(z[k].name, prefix)
                      /\ rows[j].sensor_id = NameSensorId(z[k].name, prefix)
    IN  /\ Len(rows) = Cardinality(K)
        /\ \A k \in K : \E j \in 1..Len(rows) : from(j, k)
        /\ \A j \in 1..Len(rows) : \E k \in K : from(j, k)
        /\ \A j, k \in 1..Len(rows) : j < k => rows[j].index <= rows[k].index
        /\ \A j \in 1..Len(rows) :
              /\ rows[j].sensor_name = rows[j].sensor_id
              /\ rows[j].hr_samples = 0 /\ rows[j].rr_samples = 0
              /\ rows[j].avg_hr = Fl(0) /\ rows[j].sdnn = Fl(0) /\ rows[j].rmssd = Fl(0)

---------------------------------------------------------------------------
(* C12: a discovered sensor and the entry it was discovered from *)

\* the rows used came from the discovery fallback
Discovered == sensors_table # <<>> /\ "index" \in DOMAIN sensors_table[1]

\* the position in z of the entry a discovered row was made from
EntryOfRow(row, z, prefix) ==
    CHOOSE k \in 1..Len(z) :
        /\ IsSensorHrName(z[k].name, prefix)
        /\ NameIndex(z[k].name, prefix) = row.index
        /\ NameSensorId(z[k].name, prefix) = row.sensor_id

\* the HR points SensorData builds from the content of an _hr.csv entry
PointsOfEntry(content) ==
    LET hr == ReadHrCsv(content) IN [k \in 1..Len(hr) |-> PointFromHr(hr[k])]

\* C12: in a session loaded through the discovery fallback, the sensor of
\* every discovered row has the row's id and the HR points of the entry the
\* row was discovered from, whatever the index values are.
C12_DiscoveredSensorReadsItsEntry ==
    (pc = "returned" /\ Discovered) =>
        /\ sensor_count(session) = Len(sensors_table)
        /\ \A j \in 1..Len(sensors_table) :
              /\ sensor_id(sensors(session)[j]) = sensors_table[j].sensor_id
              /\ heart_rate_points(sensors(session)[j]) =
                    PointsOfEntry(archive[EntryOfRow(sensors_table[j], archive, Prefix)].content)

---------------------------------------------------------------------------
(* C13: the archive handle *)

\* C13: whenever load_from_zip has been left, by its return, by the error
\* for a missing folder or a missing session_info.csv, or by an exception
\* raised while the sensors are read, the archive handle is closed.
C13_HandleClosedOnExit == pc \in {"returned", "raised"} => ~zopen

\* an exception raised inside the sensor loop, after the handle was in use
C13_Witness ==
    /\ pc = "raised"
    /\ folder # None
    /\ sensors_table # <<>>
    /\ i < Len(sensors_table)
    /\ ~zopen

---------------------------------------------------------------------------
(* C14: the defaults of id and name *)

\* the lines of session_info.csv before the first line equal to "Sensors"
RECURSIVE BeforeMarker(_)
BeforeMarker(ls) ==
    IF ls = <<>> \/ Strip(Head(ls)) = <<"Sensors">> THEN <<>>
    ELSE <<Head(ls)>> \o BeforeMarker(Tail(ls))

\* a key,value line with this key stands before the marker
HasMetaLine(ls, key) ==
    \E k \in 1..Len(BeforeMarker(ls)) :
        LET line == BeforeMarker(ls)[k]
        IN  Contains(line, ",") /\ Strip(SubSeq(line, 1, Find(line, ","))) = <<key>>

\* C14: a session loaded from a session_info.csv without a 'Session ID'
\* line has id ""; without a 'Recording Name' line its name is its id, or
\* the literal "Unknown" when the id is missing or empty.
C14_IdAndNameDefaults ==
    pc = "returned" =>
        /\ ~HasMetaLine(lines, "Session ID") => id(session) = <<>>
        /\ ~HasMetaLine(lines, "Recording Name") =>
              name(session) = IF id(session) = <<>> THEN <<"Unknown">> ELSE id(session)

---------------------------------------------------------------------------
(* C15: sensor ids within a session *)

\* the sensors of S with this id
SensorsWithId(S, sid) == {k \in 1..sensor_count(S) : sensor_id(sensors(S)[k]) = sid}

\* C15: in a loaded session no two sensors have the same sensor_id, so
\* sensor(sensor_id) is the only sensor with that id and to_dataframes() has
\* as many entries as the session has sensors.
C15_SensorIdsUnique ==
    pc = "returned" =>
        /\ \A j, k \in 1..sensor_count(session) :
              j # k => sensor_id(sensors(session)[j]) # sensor_id(sensors(session)[k])
        /\ \A k \in 1..sensor_count(session) :
              /\ sensor(session, sensor_id(sensors(session)[k])) = sensors(session)[k]
              /\ SensorsWithId(session, sensor_id(sensors(session)[k])) = {k}
        /\ Cardinality(DOMAIN to_dataframes(session)) = sensor_count(session)

---------------------------------------------------------------------------
(* C16: the duration of a sensor *)

\* the instants of all HR and RR points of a sensor
PointInstants(sd) ==
    {sd.hr_points[k].timestamp.t : k \in 1..Len(sd.hr_points)}
        \cup {sd.rr_points[k].timestamp.t : k \in 1..Len(sd.rr_points)}

\* the span of a set of instants, 0 for the empty set
Span(T) ==
    IF T = {} THEN 0
    ELSE (CHOOSE a \in T : \A b \in T : a >= b) - (CHOOSE a \in T : \A b \in T : a <= b)

\* C16: for every sensor of a loaded session duration_seconds returns a
\* number, the latest minus the earliest timestamp over its HR and RR points
\* together and 0 without points, also when a point's timestamp could not be
\* parsed.
C16_SensorDurationIsANumber ==
    pc = "returned" =>
        \A k \in 1..sensor_count(session) :
            LET d == sensor_duration_seconds(sensors(session)[k])
            IN  d.ok /\ d.v = Span(PointInstants(sensors(session)[k]))

---------------------------------------------------------------------------
(* C17: statistics without a statistics entry *)

\* the statistics entry of the k-th sensor row is missing from the archive
StatsMissing(k) == ~HasEntry(archive, StatsPath(Prefix, k - 1, sensors_table[k]))

\* the values of the parsed HR points of a sensor
HrValues(sd) == {heart_rate_points(sd)[j].value : j \in 1..Len(heart_rate_points(sd))}

SetMinOr0(T) == IF T = {} THEN 0 ELSE CHOOSE a \in T : \A b \in T : a <= b

SetMaxOr0(T) == IF T = {} THEN 0 ELSE CHOOSE a \in T : \A b \in T : a >= b

\* n is the float x with its fraction cut off
IsIntegerPart(n, x) ==
    /\ ~x.nan
    /\ IF x.c >= 0 THEN 100 * n <= x.c /\ x.c < 100 * (n + 1)
       ELSE 100 * (n - 1) < x.c /\ x.c <= 100 * n

\* the statistics of every sensor without statistics entry are the
\* synthesized ones; avg is "exact" (the row's Avg HR itself) or "truncated"
SynthesizedWithAvg(avg) ==
    pc = "returned" =>
        \A k \in 1..sensor_count(session) :
            StatsMissing(k) =>
                LET sd == sensors(session)[k]
                    row == sensors_table[k]
                IN  /\ heart_rate_min(sd) = SetMinOr0(HrValues(sd))
                    /\ heart_rate_max(sd) = SetMaxOr0(HrValues(sd))
                    /\ IF avg = "exact" THEN Fl(100 * heart_rate_avg(sd)) = row.avg_hr
                       ELSE IsIntegerPart(heart_rate_avg(sd), row.avg_hr)
                    /\ sdnn(sd) = row.sdnn
                    /\ rmssd(sd) = row.rmssd
                    /\ hrv_window(sd) = <<>>
                    /\ hrv_sample_count(sd) = 0

\* C17 as stated: without a statistics entry a sensor's min and max heart
\* rate are those of its parsed HR points (0 without points), its average
\* heart rate, SDNN and RMSSD are those of its summary-table row, its HRV
\* window is empty and its HRV sample count 0.
C17_SynthesizedFromRow == SynthesizedWithAvg("exact")

\* C17 amended: the same, the average heart rate being the integer part of
\* the row's Avg HR.
C17_SynthesizedAvgTruncated == SynthesizedWithAvg("truncated")

\* a sensor without statistics entry whose row has Avg HR 72.9 and whose HR
\* file has the values 70 and 72
C17_Witness ==
    /\ pc = "returned"
    /\ \E k \in 1..sensor_count(session) :
          /\ StatsMissing(k)
          /\ sensors_table[k].avg_hr = Fl(7290)
          /\ heart_rate_avg(sensors(session)[k]) = 72
          /\ heart_rate_min(sensors(session)[k]) = 70
          /\ heart_rate_max(sensors(session)[k]) = 72

---------------------------------------------------------------------------
(* C18: statistics with a statistics entry *)

\* kind is "int", "float" or "str": the value a metric line gives, if any
StatValueParses(kind, value) ==
    CASE kind = "int" -> PyInt(value).ok
      [] kind = "float" -> PyFloat(value).ok
      [] kind = "str" -> TRUE

StatValue(kind, value) ==
    CASE kind = "int" -> PyInt(value).v
      [] kind = "float" -> PyFloat(value).v
      [] kind = "str" -> value

\* what a statistics file says about one metric: the value of its last line
\* for that metric that parses, after the header; the default without one
FieldFromFile(c, metric, kind, default) ==
    LET body == AfterFirstNonBlankLine(c)
        text(k) == Strip(SubSeq(body[k], Find(body[k], ",") + 2, Len(body[k])))
        K == {k \in 1..Len(body) :
                 /\ Contains(body[k], ",")
                 /\ Strip(SubSeq(body[k], 1, Find(body[k], ","))) = <<metric>>
                 /\ StatValueParses(kind, text(k))}
    IN  IF K = {} THEN default
        ELSE StatValue(kind, text(CHOOSE k \in K : \A j \in K : j <= k))

\* C18: a sensor whose statistics entry is present has exactly the
\* statistics of that file: every recognised metric with a parsable value
\* sets its field, and a metric that is absent or unparsable reads as 0 (""
\* for the HRV window), whatever the summary-table row and the HR points say.
C18_StatisticsOnlyFromFile ==
    pc = "returned" =>
        \A k \in 1..sensor_count(session) :
            ~StatsMissing(k) =>
                LET sd == sensors(session)[k]
                    c == ReadEntry(archive, StatsPath(Prefix, k - 1, sensors_table[k]))
                IN  /\ heart_rate_min(sd) = FieldFromFile(c, "Min Heart Rate (BPM)", "int", 0)
                    /\ heart_rate_max(sd) = FieldFromFile(c, "Max Heart Rate (BPM)", "int", 0)
                    /\ heart_rate_avg(sd) =
                          FieldFromFile(c, "Average Heart Rate (BPM)", "int", 0)
                    /\ sdnn(sd) = FieldFromFile(c, "SDNN (ms)", "float", Fl(0))
                    /\ rmssd(sd) = FieldFromFile(c, "RMSSD (ms)", "float", Fl(0))
                    /\ hrv_window(sd) = FieldFromFile(c, "HRV Window", "str", <<>>)
                    /\ hrv_sample_count(sd) = FieldFromFile(c, "HRV Sample Count", "int", 0)

\* a statistics file with a parsable and then an unparsable minimum and
\* nothing else, for a sensor whose row and HR points are not zero
C18_Witness ==
    /\ pc = "returned"
    /\ sensor_count(session) = 1
    /\ ~StatsMissing(1)
    /\ ReadEntry(archive, StatsPath(Prefix, 0, sensors_table[1])) =
          << KV("Metric", <<"Value">>), KV("Min Heart Rate (BPM)", <<"65">>),
             KV("Min Heart Rate (BPM)", <<"abc">>) >>
    /\ heart_rate_min(sensors(session)[1]) = 65
    /\ heart_rate_max(sensors(session)[1]) = 0
    /\ heart_rate_avg(sensors(session)[1]) = 0
    /\ sdnn(sensors(session)[1]) = Fl(0)
    /\ sensors_table[1].avg_hr = Fl(7200)
    /\ sensors_table[1].sdnn = Fl(4520)
    /\ HrValues(sensors(session)[1]) = {70, 72}

---------------------------------------------------------------------------
(* C19: several recording folders *)

\* the top-level folder of the k-th entry (the whole name for a top-level file)
TopOf(z, k) == Split(z[k].name, "/")[1]

\* the entries that lie in a folder named recording_<id>_csv
InRecordingFolder(z) ==
    {k \in 1..Len(z) : Contains(z[k].name, "/") /\ IsRecordingFolderName(TopOf(z, k))}

\* the folder of the first such entry of the listing
FirstRecordingFolder(z) ==
    TopOf(z, CHOOSE k \in InRecordingFolder(z) : \A j \in InRecordingFolder(z) : k <= j)

\* C19: when several top-level folders named recording_<id>_csv exist, the
\* folder used is the first of them in the listing and the session_info.csv
\* read is the one of that folder; the folder used is never a top-level
\* entry without "/".
C19_FirstRecordingFolderUsed ==
    folder # None =>
        /\ \E k \in 1..Len(archive) :
              Contains(archive[k].name, "/") /\ TopOf(archive, k) = folder.s
        /\ Cardinality({TopOf(archive, k) : k \in InRecordingFolder(archive)}) >= 2 =>
              /\ folder = Str(FirstRecordingFolder(archive))
              /\ pc \in {"parse", "sensors", "returned"} =>
                    lines = ReadEntry(archive, InfoName(FirstRecordingFolder(archive)))

---------------------------------------------------------------------------
(* C20: what a line of session_info.csv changes *)

\* the metadata field a recognised key sets, "" for any other key
MetaField(key) ==
    CASE key = <<"Session ID">> -> "id"
      [] key = <<"Recording Name">> -> "name"
      [] key = <<"Start Time">> -> "startDate"
      [] key = <<"End Time">> -> "endDate"
      [] key = <<"Duration (seconds)">> -> "duration"
      [] key = <<"Number of Sensors">> -> "sensorCount"
      [] key = <<"Total Data Points">> -> "totalDataPoints"
      [] key = <<"Average Heart Rate (BPM)">> -> "averageHeartRate"
      [] key = <<"Average SDNN (ms)">> -> "averageSDNN"
      [] key = <<"Average RMSSD (ms)">> -> "averageRMSSD"
      [] OTHER -> ""

\* the text before the first comma and the text after it, both stripped
KeyText(line) == Strip(SubSeq(line, 1, Find(line, ",")))

ValueText(line) == Strip(SubSeq(line, Find(line, ",") + 2, Len(line)))

\* a line equal to "Sensors" is among the first n lines
MarkerSeen(ls, n) == \E k \in 1..n : Strip(ls[k]) = <<"Sensors">>

\* m2 is m with at most the field f changed
OnlyFieldSet(m, m2, f) ==
    /\ DOMAIN m2 = DOMAIN m \cup {f}
    /\ \A g \in DOMAIN m : g # f => m2[g] = m[g]

\* C20: in the scan of session_info.csv a non-blank line is read as
\* key,value metadata only before the first line equal to "Sensors": it is
\* split at its first comma (the value keeps further commas) and sets the
\* field of a recognised key, while an unrecognised key or a line without
\* comma leaves the metadata unchanged; from the marker on no line changes
\* the metadata.
C20_MetadataOnlyBeforeMarker ==
    [][ (pc = "parse" /\ ln < Len(lines) /\ ln' = ln + 1) =>
          LET line == lines[ln + 1]
              marker == Strip(line) = <<"Sensors">>
          IN  /\ in_sensors = MarkerSeen(lines, ln)
              /\ in_sensors' = MarkerSeen(lines, ln + 1)
              /\ (MarkerSeen(lines, ln + 1) \/ Strip(line) = <<>>) => meta' = meta
              /\ (~MarkerSeen(lines, ln + 1) /\ Strip(line) # <<>>) =>
                    /\ sensors_table' = sensors_table
                    /\ IF Contains(line, ",") /\ MetaField(KeyText(line)) # ""
                       THEN /\ OnlyFieldSet(meta, meta', MetaField(KeyText(line)))
                            /\ MetaField(KeyText(line)) \in {"id", "name"} =>
                                  meta'[MetaField(KeyText(line))] = ValueText(line)
                       ELSE meta' = meta ]_vars

\* a name with a comma read before the marker, a Session ID line after the
\* marker that set nothing
C20_Witness ==
    /\ pc = "parse"
    /\ ln = 3
    /\ lines = << KV("Recording Name", <<"My", ",", " ", "Recording">>), <<"Sensors">>,
                  KV("Session ID", <<"testid123">>) >>
    /\ in_sensors
    /\ DOMAIN meta = {"name"}
    /\ meta["name"] = <<"My", ",", " ", "Recording">>

---------------------------------------------------------------------------
(* C21: the rows of the Sensors table *)

\* the first n lines hold the "Sensors" marker and, as the next non-blank
\* line, the column header
HeaderPassed(ls, n) ==
    \E m, h \in 1..n :
        /\ m < h
        /\ Strip(ls[m]) = <<"Sensors">>
        /\ \A j \in 1..(m - 1) : Strip(ls[j]) # <<"Sensors">>
        /\ \A j \in (m + 1)..(h - 1) : Strip(ls[j]) = <<>>
        /\ Strip(ls[h]) = TableHead[2]

\* the number of CSV fields of a line, 0 for a blank line
FieldCount(line) == IF Strip(line) = <<>> THEN 0 ELSE Len(CsvReader(line)[1])

\* row has the five trailing fields of the line, parse failures giving 0
HasTrailingFields(row, line) ==
    LET f == CsvReader(line)[1]
        n == Len(f)
    IN  /\ row.hr_samples = RowInt(f[n - 4])
        /\ row.rr_samples = RowInt(f[n - 3])
        /\ row.avg_hr = RowFloat(f[n - 2])
        /\ row.sdnn = RowFloat(f[n - 1])
        /\ row.rmssd = RowFloat(f[n])

\* C21: after the "Sensors" marker and its column-header line, every
\* non-blank line with at least 7 CSV fields appends exactly one sensor row,
\* whose last five fields are read as int, int, float, float, float with 0
\* for a field that does not parse; a line with fewer than 7 fields appends
\* no row, and the scan goes on with the next line.
C21_EveryLongLineIsARow ==
    [][ (pc = "parse" /\ ln < Len(lines) /\ ln' = ln + 1 /\ HeaderPassed(lines, ln)) =>
          LET line == lines[ln + 1]
          IN  /\ pc' = "parse"
              /\ IF FieldCount(line) >= 7
                 THEN /\ Len(sensors_table') = Len(sensors_table) + 1
                      /\ SubSeq(sensors_table', 1, Len(sensors_table)) = sensors_table
                      /\ HasTrailingFields(sensors_table'[Len(sensors_table')], line)
                 ELSE sensors_table' = sensors_table ]_vars

---------------------------------------------------------------------------
(* C22: the lists handed out by the accessors *)

\* the session as load_from_zip built it
LoadedSession == RecordingSession(meta)

\* the sequence the accessor behind the held list gave when the session was built
OriginalList ==
    CASE held.kind = "sensors" -> sensors(LoadedSession)
      [] held.kind = "hr" -> heart_rate_points(sensors(LoadedSession)[held.k])
      [] held.kind = "rr" -> rr_points(sensors(LoadedSession)[held.k])

\* C22: whatever the caller appends to, removes from or reorders in the
\* lists returned by sensors(), heart_rate_points() and rr_points(), the
\* session keeps its sensors and points, a later call of the accessor
\* returns the original sequence, and sensor_count, data_point_count,
\* total_data_points and the three session averages keep their values.
C22_AccessorListsAreCopies ==
    pc = "returned" =>
        /\ sensors(session) = sensors(LoadedSession)
        /\ (held.kind # "none" /\ held.fresh) => held.items = OriginalList
        /\ sensor_count(session) = sensor_count(LoadedSession)
        /\ \A k \in 1..sensor_count(session) :
              data_point_count(sensors(session)[k]) = data_point_count(sensors(LoadedSession)[k])
        /\ total_data_points(session) = total_data_points(LoadedSession)
        /\ average_heart_rate(session) = average_heart_rate(LoadedSession)
        /\ average_sdnn(session) = average_sdnn(LoadedSession)
        /\ average_rmssd(session) = average_rmssd(LoadedSession)

\* the list of a later call of sensors(), after two changes to lists handed
\* out before
C22_Witness ==
    /\ pc = "returned"
    /\ held.kind = "sensors"
    /\ held.fresh
    /\ held.muts = 2
    /\ Len(held.items) = 2
    /\ sensor_count(session) = 2

---------------------------------------------------------------------------
(* C23: get_heart_rate_point and get_rr_point *)

\* the sequence the called getter indexes
GotPoints ==
    IF got.kind = "hr" THEN heart_rate_points(sensors(session)[got.k])
    ELSE rr_points(sensors(session)[got.k])

\* C23: get_heart_rate_point(i) and get_rr_point(i) return the point at
\* 0-based position i of heart_rate_points() / rr_points() when
\* 0 <= i < length and no point for every other i, negative ones included:
\* no exception and no counting from the end.
C23_GettersAreBoundsChecked ==
    got.kind # "none" =>
        IF 0 <= got.ix /\ got.ix < Len(GotPoints)
        THEN got.result = GotPoints[got.ix + 1]
        ELSE got.result = None

\* get_heart_rate_point(-1) on a sensor with two HR points gave no point
C23_Witness ==
    /\ got.kind = "hr"
    /\ got.ix = -1
    /\ Len(GotPoints) = 2
    /\ got.result = None

====
